---- MODULE Spec2Model ----
(***************************************************************************)
(* A model of the tast test runner: TestRunner::run and its step loop,     *)
(* the run context, the built-in shell and HTTP backends, the run summary, *)
(* the `run` command of the CLI and the execution-levels decomposition.    *)
(***************************************************************************)
EXTENDS Integers, Sequences, FiniteSets, TLC

(***************************************************************************)
(* Bounds of the model.                                                    *)
(***************************************************************************)
\* plan steps of a plan handed to TestRunner::run
MaxSteps == 3
\* depends_on entries in such a plan, all steps together
MaxDeps == 2
\* plan steps of a plan with data flow (inputs / outputs)
MaxDataSteps == 3
\* edges with a passes list in such a plan
MaxPasses == 2
\* graphs the files of one `run` command hold
MaxGraphs == 2
\* plan steps of a plan compiled by the `run` command
MaxCliSteps == 1
\* nodes of a test graph
MaxNodes == 3
\* edges of a test graph
MaxEdges == 3
\* nodes of a parsed graph
MaxAstNodes == 2
\* edges of a parsed graph
MaxAstEdges == 1
\* imports of a parsed graph
MaxImports == 1
\* calls of resolve_imports on one resolver
MaxResolveCalls == 2
\* steps of a plan handed to filter_plan
MaxFilterSteps == 3
\* predicates inside an And or an Or
MaxFilterPreds == 1

\* node names; step i of a plan is the node NodeNames[i]
NodeNames == <<"A", "B", "C", "D", "E", "F">>
\* a node name that no step of the plan carries (filtered out, or never visited)
Absent == "Z"
\* field names of passes lists and the values a backend can produce for them
Fields == {"x"}
Values == {1, 2}

None == "none"

(***************************************************************************)
(* Helpers on sets, sequences and maps.                                    *)
(***************************************************************************)
RECURSIVE KSubsets(_, _)
\* the subsets of S with at most k elements
KSubsets(S, k) ==
    IF k = 0 THEN {{}}
    ELSE LET P == KSubsets(S, k - 1)
         IN  P \cup {p \cup {x} : p \in P, x \in S}

\* HashMap<String, String>: a function on a finite set of keys
EmptyMap == << >>
Maps(K, V) == UNION {[D -> V] : D \in SUBSET K}
IsEmptyMap(m) == DOMAIN m = {}

\* HashMap::insert
MapInsert(m, k, v) == [x \in DOMAIN m \cup {k} |-> IF x = k THEN v ELSE m[x]]

Range(s) == {s[i] : i \in DOMAIN s}

(***************************************************************************)
(* Plans (plan/types.rs).  A step keeps what the runner reads: node,       *)
(* depends_on, inputs and outputs.                                         *)
(***************************************************************************)
PlanStep(node, depends_on, inputs, outputs) ==
    [node |-> node, depends_on |-> depends_on, inputs |-> inputs, outputs |-> outputs]

InputEntry(field, from) == [field |-> field, from |-> from]

TestPlan(steps) == [steps |-> steps]

\* depends_on pairs <<i, d>>: step i names node d
DepPairs(n) == (1..n) \X ({NodeNames[j] : j \in 1..n} \cup {Absent})

\* the plan of n steps with the depends_on pairs D and no data flow
ControlPlan(n, D) ==
    TestPlan([i \in 1..n |->
        PlanStep(NodeNames[i], {p[2] : p \in {q \in D : q[1] = i}}, << >>, {})])

ControlPlans ==
    UNION {{ControlPlan(n, D) : D \in KSubsets(DepPairs(n), MaxDeps)} : n \in 0..MaxSteps}

\* scenario F of the specification: A -> B -> C, and an independent D
ScenarioF ==
    TestPlan(<<PlanStep("A", {}, << >>, {}), PlanStep("B", {"A"}, << >>, {}),
               PlanStep("C", {"B"}, << >>, {}), PlanStep("D", {}, << >>, {})>>)

\* pass triples <<i, j, f>>: an edge from step i to a later step j passing field f
PassTriples(n) == {t \in (1..n) \X (1..n) \X Fields : t[1] < t[2]}

FieldSeq == <<"x">>

\* the candidate inputs <<i, f>> in edge order
InputCands(n) ==
    [k \in 1..(n * Len(FieldSeq)) |->
        <<((k - 1) \div Len(FieldSeq)) + 1, FieldSeq[((k - 1) % Len(FieldSeq)) + 1]>>]

RECURSIVE InputsOf(_, _, _)
\* the inputs of step j under the pass triples E, in edge order (compiler.rs:41-53)
InputsOf(j, E, cands) ==
    IF cands = << >> THEN << >>
    ELSE LET c == Head(cands)
             rest == InputsOf(j, E, Tail(cands))
         IN  IF <<c[1], j, c[2]>> \in E
             THEN <<InputEntry(c[2], NodeNames[c[1]])>> \o rest
             ELSE rest

\* the plan the compiler makes of n nodes in topological order with the pass triples E
DataPlan(n, E) ==
    TestPlan([j \in 1..n |->
        PlanStep(NodeNames[j],
                 {NodeNames[t[1]] : t \in {u \in E : u[2] = j}},
                 InputsOf(j, E, InputCands(n)),
                 {t[3] : t \in {u \in E : u[1] = j}})])

DataPlans ==
    UNION {{DataPlan(n, E) : E \in KSubsets(PassTriples(n), MaxPasses) \ {{}}}
           : n \in 2..MaxDataSteps}

\* the field names a plan mentions
PlanFields(p) ==
    UNION {p.steps[i].outputs \cup {p.steps[i].inputs[k].field : k \in DOMAIN p.steps[i].inputs}
           : i \in DOMAIN p.steps}

(***************************************************************************)
(* Step results (runner/result.rs).                                        *)
(***************************************************************************)
StepStatus == {"passed", "failed", "skipped", "error"}

StepResult(node, status, outputs, error) ==
    [node |-> node, status |-> status, outputs |-> outputs, error |-> error]

\* StepResult::passed, ::failed and ::skipped: all three carry no outputs
Passed(node) == StepResult(node, "passed", EmptyMap, None)
Failed(node, kind) == StepResult(node, "failed", EmptyMap, kind)
Skipped(node) == StepResult(node, "skipped", EmptyMap, None)
\* the result slot of an Err(BackendError)
NoResult == StepResult(None, None, EmptyMap, None)

(***************************************************************************)
(* The run context (runner/context.rs): step_outputs maps a node name to   *)
(* the output map recorded for it.                                         *)
(***************************************************************************)
\* RunContext::record_outputs
record_outputs(ctx, node, outputs) == MapInsert(ctx, node, outputs)

RECURSIVE resolve_loop(_, _, _, _)
\* the loop of resolve_inputs: one lookup per input, in list order
resolve_loop(ctx, inputs, resolved, errors) ==
    IF inputs = << >> THEN [resolved |-> resolved, errors |-> errors]
    ELSE LET field == Head(inputs).field
             source_node == Head(inputs).from
         IN  IF source_node \in DOMAIN ctx
             THEN IF field \in DOMAIN ctx[source_node]
                  THEN resolve_loop(ctx, Tail(inputs),
                                    MapInsert(resolved, field, ctx[source_node][field]), errors)
                  ELSE resolve_loop(ctx, Tail(inputs), resolved,
                                    Append(errors, <<"no field", field, source_node>>))
             ELSE resolve_loop(ctx, Tail(inputs), resolved,
                               Append(errors, <<"no outputs", field, source_node>>))

\* RunContext::resolve_inputs: Ok(resolved) or Err(errors)
resolve_inputs(ctx, inputs) ==
    LET r == resolve_loop(ctx, inputs, EmptyMap, << >>)
    IN  IF r.errors = << >>
        THEN [called |-> TRUE, ok |-> TRUE, resolved |-> r.resolved, errors |-> << >>]
        ELSE [called |-> TRUE, ok |-> FALSE, resolved |-> EmptyMap, errors |-> r.errors]

\* resolve_inputs was not called (the step has no inputs, or the backend never got there)
NotResolved == [called |-> FALSE, ok |-> TRUE, resolved |-> EmptyMap, errors |-> << >>]

(***************************************************************************)
(* Backends (runner/backend.rs, runner/backends).  What a backend meets    *)
(* outside the program (the script's exit code and stdout, the HTTP        *)
(* response) is the environment's choice env.                              *)
(***************************************************************************)
Backend(name, kind, detect, fail_execute, fail_harness) ==
    [name |-> name, kind |-> kind, detect |-> detect,
     fail_execute |-> fail_execute, fail_harness |-> fail_harness]

\* ShellBackend and HttpBackend never detect a project
ShellBackend == Backend("shell", "shell", FALSE, FALSE, FALSE)
HttpBackend == Backend("http", "http", FALSE, FALSE, FALSE)
\* the configurable backend of the runner's tests
MockBackend(detect, fail_execute, fail_harness) ==
    Backend("mock", "mock", detect, fail_execute, fail_harness)

\* what execute_step gives back: Ok(result) or Err(BackendError), the context as the
\* backend leaves it, and what resolve_inputs returned to it
Returned(ok, result, ctx, resolved) ==
    [ok |-> ok, result |-> result, context |-> ctx, resolved |-> resolved]

\* the environment of one shell step
ShellEnvs(fields) ==
    [script_exists : BOOLEAN, spawned : BOOLEAN, exit_code : {0, 1},
     timed_out : BOOLEAN, stdout : Maps(fields, Values)]

\* context::extract_step_outputs: the key/value pairs of the TAST_OUTPUT markers
extract_step_outputs(stdout) == stdout

\* ShellBackend::execute_step
ShellExecuteStep(step, ctx, env) ==
    IF ~env.script_exists THEN Returned(FALSE, NoResult, ctx, NotResolved)
    ELSE LET r == IF step.inputs # << >> THEN resolve_inputs(ctx, step.inputs) ELSE NotResolved
         IN  IF ~r.ok
             THEN Returned(TRUE, Failed(step.node, "MissingInput"), ctx, r)
             ELSE IF ~env.spawned THEN Returned(FALSE, NoResult, ctx, r)
             ELSE LET outputs == extract_step_outputs(env.stdout)
                      ctx2 == IF ~IsEmptyMap(outputs)
                              THEN record_outputs(ctx, step.node, outputs) ELSE ctx
                      status == IF env.timed_out THEN "error"
                                ELSE IF env.exit_code = 0 THEN "passed" ELSE "failed"
                      error == IF env.timed_out THEN "Timeout"
                               ELSE IF env.exit_code # 0 THEN "ActionFailed" ELSE None
                  IN  Returned(TRUE, StepResult(step.node, status, outputs, error), ctx2, r)

\* the environment of one HTTP step: whether an action carries an HTTP pattern,
\* whether the request is answered, whether all assertions hold, the JSON body
HttpEnvs(fields) ==
    [pattern : BOOLEAN, answered : BOOLEAN, all_passed : BOOLEAN, body : Maps(fields, Values)]

\* response::extract_response_outputs: the declared output fields the body has
extract_response_outputs(body, output_fields) ==
    [f \in output_fields \cap DOMAIN body |-> body[f]]

\* HttpBackend::execute_step
HttpExecuteStep(step, ctx, env) ==
    IF ~env.pattern THEN Returned(TRUE, Skipped(step.node), ctx, NotResolved)
    ELSE LET r == IF step.inputs # << >> THEN resolve_inputs(ctx, step.inputs) ELSE NotResolved
         IN  IF ~r.ok
             THEN Returned(TRUE, Failed(step.node, "MissingInput"), ctx, r)
             ELSE IF ~env.answered THEN Returned(FALSE, NoResult, ctx, r)
             ELSE LET outputs == extract_response_outputs(env.body, step.outputs)
                      ctx2 == IF ~IsEmptyMap(outputs)
                              THEN record_outputs(ctx, step.node, outputs) ELSE ctx
                      status == IF env.all_passed THEN "passed" ELSE "failed"
                      error == IF ~env.all_passed THEN "AssertionFailed" ELSE None
                  IN  Returned(TRUE, StepResult(step.node, status, outputs, error), ctx2, r)

\* MockBackend::execute_step
MockExecuteStep(b, step, ctx) ==
    IF b.fail_execute
    THEN Returned(TRUE, Failed(step.node, "AssertionFailed"), ctx, NotResolved)
    ELSE Returned(TRUE, Passed(step.node), ctx, NotResolved)

\* the environments a step of plan p can meet under backend b
Envs(b, p) ==
    IF b.kind = "shell" THEN ShellEnvs(PlanFields(p))
    ELSE IF b.kind = "http" THEN HttpEnvs(PlanFields(p))
    ELSE {None}

\* TestBackend::execute_step, dispatched on the backend
BackendExecuteStep(b, step, ctx, env) ==
    IF b.kind = "shell" THEN ShellExecuteStep(step, ctx, env)
    ELSE IF b.kind = "http" THEN HttpExecuteStep(step, ctx, env)
    ELSE MockExecuteStep(b, step, ctx)

\* TestBackend::generate_harness: whether it can succeed, whether it can fail
HarnessOutcomes(b) ==
    IF b.kind = "shell" THEN BOOLEAN
    ELSE IF b.kind = "http" THEN {TRUE}
    ELSE {~b.fail_harness}

(***************************************************************************)
(* The registry (runner/registry.rs): a list of backends.                  *)
(***************************************************************************)
\* Option::None of a backend lookup
NoBackend == Backend(None, None, FALSE, FALSE, FALSE)

RECURSIVE get(_, _)
\* BackendRegistry::get: the first backend of that name
get(reg, name) ==
    IF reg = << >> THEN NoBackend
    ELSE IF Head(reg).name = name THEN Head(reg)
    ELSE get(Tail(reg), name)

RECURSIVE detect(_)
\* BackendRegistry::detect: the first backend whose detect_project is true
detect(reg) ==
    IF reg = << >> THEN NoBackend
    ELSE IF Head(reg).detect THEN Head(reg)
    ELSE detect(Tail(reg))

Registries ==
    {<< >>, <<ShellBackend, HttpBackend>>}
    \cup {<<MockBackend(d, fe, fh)>> : d \in BOOLEAN, fe \in BOOLEAN, fh \in BOOLEAN}

BackendNames == {None, "shell", "http", "mock", "unknown"}

\* RunConfig: the fields the runner reads
RunConfigs == [backend_name : BackendNames, fail_fast : BOOLEAN]

(***************************************************************************)
(* The state of a run (runner/executor.rs).                                *)
(***************************************************************************)
VARIABLES
    config,        \* TestRunner.config
    registry,      \* TestRunner.registry
    plan,          \* the plan handed to run
    pc,            \* where run stands: "select", "harness", "steps", "done"
    backend,       \* the backend select_backend returned
    harness,       \* the harness: "none", "generated", "failed", "cleaned"
    context,       \* RunContext.step_outputs
    results,       \* execute_steps: results
    failed_nodes,  \* execute_steps: failed_nodes
    stop,          \* execute_steps: stop
    calls,         \* the calls of backend.execute_step so far, in order
    run_result     \* what run returned

runVars == <<config, registry, plan, pc, backend, harness, context, results,
             failed_nodes, stop, calls, run_result>>

\* the state of the `run` command (cli/commands.rs, main.rs)
VARIABLES
    cli_pc,        \* where run_run stands: "none", "start", "loop", "running", "exit"
    graphs_left,   \* the number of graphs of the files not yet run
    all_success,   \* run_run: all_success
    executed,      \* the step statuses of the plans run so far, one sequence per plan
    outcome,       \* what run_run returned: "none", "Ok(true)", "Ok(false)", "Err"
    exit_code      \* the exit code of the process

cliVars == <<cli_pc, graphs_left, all_success, executed, outcome, exit_code>>

\* the locals of execution_levels (runner/executor.rs)
VARIABLES
    lv_pc,         \* where execution_levels stands: "none", "loop", "done"
    levels,        \* levels: each level lists steps by their index in the plan
    assigned,      \* assigned: the node names of the steps in levels
    remaining,     \* remaining: the steps not yet in a level, by index
    lv_backend,    \* what the backend of execute_by_levels does with each node's step
    lv_run         \* the locals of execute_by_levels: all_results, failed_nodes, stop

levelVars == <<lv_pc, levels, assigned, remaining, lv_backend, lv_run>>

\* the state of the graph stage (graph/builder.rs, graph/traversal.rs,
\* graph/analysis.rs, plan/compiler.rs)
VARIABLES
    graph,         \* the TestGraph that build returned
    g_pc,          \* where the stage stands: "none", "built", "traversed", "compiled"
    strategy,      \* the TraversalStrategy of traverse
    sorted,        \* what traverse returned
    cplan,         \* what compile_with_strategy returned
    cycle,         \* what find_cycle returned
    spath          \* the names shortest_path was asked about and what it returned

graphVars == <<graph, g_pc, strategy, sorted, cplan, cycle, spath>>

\* the state of lowering and import resolution (ir/mod.rs, ir/resolve.rs,
\* cli/commands.rs)
VARIABLES
    fs_files,         \* the file system: what stands at each canonical path
    import_resolver,      \* the ImportResolver: loaded and in_progress
    import_result, \* what resolve_imports returned, and the fs_files it opened
    importer,      \* the file whose imports were handed to resolve_imports
    resolve_calls, \* the number of calls of resolve_imports on the import_resolver
    parsed,     \* the parsed graph handed to lower_with_imports
    lowered,       \* what lower_with_imports returned
    fs_reads       \* the paths the import_resolver read from the file system, oldest first

lowerVars == <<fs_files, import_resolver, import_result, importer, resolve_calls, parsed, lowered,
               fs_reads>>

\* the state of plan filtering (plan/filter.rs)
VARIABLES
    f_original,    \* the plan before any filter
    f_plan,        \* the plan the last filter_plan returned
    f_applied      \* the predicates filter_plan was called with, in order

filterVars == <<f_original, f_plan, f_applied>>

pipeVars == <<graphVars, lowerVars, filterVars>>

vars == <<runVars, cliVars, levelVars, pipeVars>>

\* Result<TestRunResult, RunError>
RunPending == [state |-> "pending", kind |-> None, backend |-> None,
               steps |-> << >>, summary |-> None]
RunError(kind) == [state |-> "Err", kind |-> kind, backend |-> None,
                   steps |-> << >>, summary |-> None]
TestRunResult(b, steps, summary) ==
    [state |-> "Ok", kind |-> None, backend |-> b, steps |-> steps, summary |-> summary]

\* select_backend without its auto-detection branch
select_backend_by_name_only(cfg, reg) == get(reg, cfg.backend_name)

\* TestRunner::select_backend
select_backend(cfg, reg) ==
    IF cfg.backend_name # None THEN get(reg, cfg.backend_name) ELSE detect(reg)

\* has_failed_dependency that skips as soon as any node has failed
has_failed_dependency_on_any_failure(step, failed) == failed # {}

\* TestRunner::has_failed_dependency
has_failed_dependency(step, failed) == \E dep \in step.depends_on : dep \in failed

\* execute_step that reports a backend error with the status error
execute_step_as_error(step, ret) ==
    IF ret.ok THEN ret.result
    ELSE StepResult(step.node, "error", EmptyMap, "RuntimeError")

\* TestRunner::execute_step: a backend error becomes a failed result
execute_step(step, ret) ==
    IF ret.ok THEN ret.result ELSE Failed(step.node, "RuntimeError")

\* execute_steps, line 162: a result that ends its node
is_terminating(result) == result.status = "failed" \/ result.status = "error"

\* execute_steps, lines 162-167: failed_nodes after a result
failed_after(failed, step, result) ==
    IF is_terminating(result) THEN failed \cup {step.node} ELSE failed

\* execute_steps that never sets stop
stop_after_never_set(stopped, fail_fast, result) == stopped

\* execute_steps, lines 162-167: stop after a result
stop_after(stopped, fail_fast, result) ==
    IF is_terminating(result) /\ fail_fast THEN TRUE ELSE stopped

\* execute_steps that records the outputs without the emptiness test
context_after_unconditional(ctx, step, result) ==
    record_outputs(ctx, step.node, result.outputs)

\* execute_steps, lines 169-172: the context after a result
context_after(ctx, step, result) ==
    IF ~IsEmptyMap(result.outputs) THEN record_outputs(ctx, step.node, result.outputs)
    ELSE ctx

RunSummary(total, passed, failed, skipped, errors) ==
    [total |-> total, passed |-> passed, failed |-> failed,
     skipped |-> skipped, errors |-> errors]

RECURSIVE count_results(_, _)
\* the loop of RunSummary::from_results
count_results(rs, summary) ==
    IF rs = << >> THEN summary
    ELSE LET st == Head(rs).status
         IN  count_results(Tail(rs),
                [summary EXCEPT
                    !.passed = @ + (IF st = "passed" THEN 1 ELSE 0),
                    !.failed = @ + (IF st = "failed" THEN 1 ELSE 0),
                    !.skipped = @ + (IF st = "skipped" THEN 1 ELSE 0),
                    !.errors = @ + (IF st = "error" THEN 1 ELSE 0)])

\* from_results that counts an error result as a failure
from_results_errors_as_failures(rs) ==
    LET sm == count_results(rs, RunSummary(Len(rs), 0, 0, 0, 0))
    IN  [sm EXCEPT !.failed = sm.failed + sm.errors, !.errors = 0]

\* RunSummary::from_results
from_results(rs) == count_results(rs, RunSummary(Len(rs), 0, 0, 0, 0))

\* RunSummary::success
success(summary) == summary.failed = 0 /\ summary.errors = 0

\* the state of a runner that has not started its run of plan p
Fresh(cfg, reg, p) ==
    /\ config = cfg
    /\ registry = reg
    /\ plan = p
    /\ pc = "select"
    /\ backend = NoBackend
    /\ harness = "none"
    /\ context = EmptyMap
    /\ results = << >>
    /\ failed_nodes = {}
    /\ stop = FALSE
    /\ calls = << >>
    /\ run_result = RunPending

\* no `run` command is under way: the runner is used as a library
NoCommand ==
    /\ cli_pc = "none"
    /\ graphs_left = 0
    /\ all_success = TRUE
    /\ executed = << >>
    /\ outcome = "none"
    /\ exit_code = 0

\* Result<Vec<NodeIndex>, String> of traverse, and not yet returned
NotSorted == [state |-> "none", order |-> << >>, node |-> 0]
SortedOk(order) == [state |-> "Ok", order |-> order, node |-> 0]
SortedErr(node) == [state |-> "Err", order |-> << >>, node |-> node]

\* Result<TestPlan, String> of compile_with_strategy, and not yet returned
\* PlanMetadata: the two counts (the name and the traversal are left out)
PlanMetadata(nodes_total, edges_total) ==
    [nodes_total |-> nodes_total, edges_total |-> edges_total]
NotCompiled == [state |-> "none", plan |-> TestPlan(<< >>), metadata |-> PlanMetadata(0, 0)]
CompiledOk(p, metadata) == [state |-> "Ok", plan |-> p, metadata |-> metadata]
CompiledErr == [state |-> "Err", plan |-> TestPlan(<< >>), metadata |-> PlanMetadata(0, 0)]

\* Option<Vec<String>> of find_cycle, and not yet returned
NotAnalysed == [state |-> "none", path |-> << >>]
CycleSome(path) == [state |-> "Some", path |-> path]
CycleNone == [state |-> "None", path |-> << >>]

\* the Result<Vec<NodeIndex>, String> of shortest_path, with the two names asked
NoPathQuery == [state |-> "none", from_name |-> None, to_name |-> None, path |-> << >>]
PathOk(from_name, to_name, path) ==
    [state |-> "Ok", from_name |-> from_name, to_name |-> to_name, path |-> path]
PathErr(from_name, to_name) ==
    [state |-> "Err", from_name |-> from_name, to_name |-> to_name, path |-> << >>]

\* TestGraph: the nodes in index order and the edges in insertion order
TestGraph(nodes, edges) == [nodes |-> nodes, edges |-> edges]

\* names, parsed graphs and lowered graphs (parser/ast.rs, ir/mod.rs); a name is a
\* sequence of characters
Dot == "."

\* an identifier of one character
Ident(c) == <<c>>

\* str::contains('.')
contains_dot(name) == \E i \in DOMAIN name : name[i] = Dot

\* str::split_once('.'): the parts before and after the first dot
split_once(name) ==
    LET k == CHOOSE i \in DOMAIN name : name[i] = Dot /\ \A j \in 1..(i - 1) : name[j] # Dot
    IN  <<SubSeq(name, 1, k - 1), SubSeq(name, k + 1, Len(name))>>

\* format!("{graph_name}.{node_name}")
format_dotted(graph_name, node_name) == graph_name \o <<Dot>> \o node_name

AstNode(name, requires) == [name |-> name, requires |-> requires]

AstEdge(from, to, passes) == [from |-> from, to |-> to, passes |-> passes]

Import(name, path) == [name |-> name, path |-> path]

AstGraph(nodes, edges, imports) == [nodes |-> nodes, edges |-> edges, imports |-> imports]

IrGraph(nodes, edges) == [nodes |-> nodes, edges |-> edges]

NotLowered == [state |-> "none", ir |-> IrGraph(<< >>, << >>), error |-> None]
LowerOk(ir) == [state |-> "Ok", ir |-> ir, error |-> None]
LowerErr(error) == [state |-> "Err", ir |-> IrGraph(<< >>, << >>), error |-> error]

\* the file system: what is found at a canonical path
Missing == [status |-> "missing", graphs |-> << >>]
Unreadable == [status |-> "unreadable", graphs |-> << >>]
Unparsable == [status |-> "unparsable", graphs |-> << >>]
Parsed(graphs) == [status |-> "ok", graphs |-> graphs]

\* the import paths of the model and Path::canonicalize on them
ImportPaths == {"./m.tast", "m.tast", "./n.tast"}

canonicalize(path) == IF path = "./n.tast" THEN "/n.tast" ELSE "/m.tast"

CanonicalPaths == {canonicalize(p) : p \in ImportPaths}

\* ImportResolver::new
ImportResolver(loaded, in_progress) == [loaded |-> loaded, in_progress |-> in_progress]

ImportResolver_new == ImportResolver([p \in {} |-> << >>], {})

ResolvedImport(name, graphs) == [name |-> name, graphs |-> graphs]

ImportsNotResolved ==
    [state |-> "none", error |-> None, resolved |-> << >>, resolver |-> ImportResolver_new,
     reads |-> << >>]
ResolveOk(resolved, resolver, reads) ==
    [state |-> "Ok", error |-> None, resolved |-> resolved, resolver |-> resolver,
     reads |-> reads]
ResolveErr(error, resolver, reads) ==
    [state |-> "Err", error |-> error, resolved |-> << >>, resolver |-> resolver,
     reads |-> reads]

\* nothing has been lowered and no resolver is at work
NoLowering ==
    /\ fs_files = [p \in CanonicalPaths |-> Missing]
    /\ import_resolver = ImportResolver_new
    /\ import_result = ImportsNotResolved
    /\ importer = None
    /\ resolve_calls = 0
    /\ parsed = AstGraph(<< >>, << >>, << >>)
    /\ lowered = NotLowered
    /\ fs_reads = << >>

TagNames == {"smoke", "slow"}

\* a plan step as filter_plan sees it, and a plan with its metadata
TaggedStep(order, node, tags, depends_on, inputs) ==
    [order |-> order, node |-> node, tags |-> tags, depends_on |-> depends_on,
     inputs |-> inputs]

TaggedPlan(steps, nodes_total, edges_total) ==
    [steps |-> steps, nodes_total |-> nodes_total, edges_total |-> edges_total]

\* no plan has been filtered
NoFilter ==
    /\ f_original = TaggedPlan(<< >>, 0, 0)
    /\ f_plan = TaggedPlan(<< >>, 0, 0)
    /\ f_applied = << >>

\* no graph is being compiled
NoGraph ==
    /\ graph = TestGraph(<< >>, << >>)
    /\ g_pc = "none"
    /\ strategy = None
    /\ sorted = NotSorted
    /\ cplan = NotCompiled
    /\ cycle = NotAnalysed
    /\ spath = NoPathQuery

NoPipeline == NoGraph /\ NoLowering /\ NoFilter

\* execution_levels is not under way
\* the locals of the loop of execute_steps and of execute_by_levels
LoopLocals(all_results, failed, stopped) ==
    [results |-> all_results, failed_nodes |-> failed, stop |-> stopped]

NoLevels ==
    /\ lv_pc = "none"
    /\ levels = << >>
    /\ assigned = {}
    /\ remaining = << >>
    /\ lv_backend = EmptyMap
    /\ lv_run = LoopLocals(<< >>, {}, FALSE)

RunPlans == ControlPlans \cup DataPlans \cup {ScenarioF}

Init ==
    /\ \E cfg \in RunConfigs, reg \in Registries, p \in RunPlans : Fresh(cfg, reg, p)
    /\ NoCommand
    /\ NoLevels
    /\ NoPipeline

\* run, lines 78-81: select the backend
SelectBackend ==
    /\ pc = "select"
    /\ LET b == select_backend(config, registry)
       IN  \/ /\ b = NoBackend
              /\ run_result' = RunError("BackendNotFound")
              /\ pc' = "done"
              /\ UNCHANGED backend
           \/ /\ b # NoBackend
              /\ backend' = b
              /\ pc' = "harness"
              /\ UNCHANGED run_result
    /\ UNCHANGED <<config, registry, plan, harness, context, results, failed_nodes, stop, calls>>
    /\ UNCHANGED <<cliVars, levelVars, pipeVars>>

\* run, lines 84-94: a new context, and the backend generates the harness
GenerateHarness ==
    /\ pc = "harness"
    /\ \E generated \in HarnessOutcomes(backend) :
          \/ /\ generated
             /\ harness' = "generated"
             /\ context' = EmptyMap
             /\ pc' = "steps"
             /\ UNCHANGED run_result
          \/ /\ ~generated
             /\ harness' = "failed"
             /\ run_result' = RunError("HarnessGenerationFailed")
             /\ pc' = "done"
             /\ UNCHANGED context
    /\ UNCHANGED <<config, registry, plan, backend, results, failed_nodes, stop, calls>>
    /\ UNCHANGED <<cliVars, levelVars, pipeVars>>

\* one iteration of the loop of execute_steps
ExecuteSteps ==
    /\ pc = "steps"
    /\ Len(results) < Len(plan.steps)
    /\ LET i == Len(results) + 1
           step == plan.steps[i]
       IN  \/ /\ stop
              /\ results' = Append(results, Skipped(step.node))
              /\ UNCHANGED <<context, failed_nodes, stop, calls>>
           \/ /\ ~stop
              /\ has_failed_dependency(step, failed_nodes)
              /\ results' = Append(results, Skipped(step.node))
              /\ UNCHANGED <<context, failed_nodes, stop, calls>>
           \/ /\ ~stop
              /\ ~has_failed_dependency(step, failed_nodes)
              /\ \E env \in Envs(backend, plan) :
                    LET ret == BackendExecuteStep(backend, step, context, env)
                        result == execute_step(step, ret)
                    IN  /\ failed_nodes' = failed_after(failed_nodes, step, result)
                        /\ stop' = stop_after(stop, config.fail_fast, result)
                        /\ context' = context_after(ret.context, step, result)
                        /\ results' = Append(results, result)
                        /\ calls' = Append(calls, [step |-> i, node |-> step.node,
                                                   ok |-> ret.ok, resolved |-> ret.resolved])
    /\ UNCHANGED <<config, registry, plan, pc, backend, harness, run_result>>
    /\ UNCHANGED <<cliVars, levelVars, pipeVars>>

\* run, lines 99-112: clean up and build the result
FinishRun ==
    /\ pc = "steps"
    /\ Len(results) = Len(plan.steps)
    /\ \E clean_harness \in BOOLEAN :
          harness' = IF clean_harness THEN "cleaned" ELSE harness
    /\ run_result' = TestRunResult(backend.name, results, from_results(results))
    /\ pc' = "done"
    /\ UNCHANGED <<config, registry, plan, backend, context, results, failed_nodes, stop, calls>>
    /\ UNCHANGED <<cliVars, levelVars, pipeVars>>

Next == SelectBackend \/ GenerateHarness \/ ExecuteSteps \/ FinishRun

Spec == Init /\ [][Next]_vars

(***************************************************************************)
(* The `run` command (cli/commands.rs: run_run, main.rs): one runner, one  *)
(* run per graph of the input files, and the exit code.                    *)
(***************************************************************************)
\* the plans compile_with_strategy and filter_plan hand to the runner
CliPlans ==
    UNION {{ControlPlan(n, D) : D \in KSubsets(DepPairs(n), MaxDeps)} : n \in 0..MaxCliSteps}

\* the runner between two runs
RunnerIdle ==
    /\ plan = TestPlan(<< >>)
    /\ pc = "idle"
    /\ backend = NoBackend
    /\ harness = "none"
    /\ context = EmptyMap
    /\ results = << >>
    /\ failed_nodes = {}
    /\ stop = FALSE
    /\ calls = << >>
    /\ run_result = RunPending

\* the locals of a run are dropped
DropRun ==
    /\ plan' = TestPlan(<< >>)
    /\ pc' = "idle"
    /\ backend' = NoBackend
    /\ harness' = "none"
    /\ context' = EmptyMap
    /\ results' = << >>
    /\ failed_nodes' = {}
    /\ stop' = FALSE
    /\ calls' = << >>
    /\ run_result' = RunPending

\* run_run builds one runner for all graphs.  The runner's registry is a parameter here:
\* BackendRegistry::new registers no backend, register adds any.
InitCli ==
    /\ \E cfg \in RunConfigs, reg \in Registries : config = cfg /\ registry = reg
    /\ RunnerIdle
    /\ cli_pc = "start"
    /\ graphs_left \in 0..MaxGraphs
    /\ all_success = TRUE
    /\ executed = << >>
    /\ outcome = "none"
    /\ exit_code = 0
    /\ NoLevels
    /\ NoPipeline

\* main, lines 209-219: what the process makes of run_run's return value
ExitWith(ret) ==
    /\ outcome' = ret
    /\ exit_code' = IF ret = "Ok(true)" THEN 0 ELSE 1
    /\ cli_pc' = "exit"

\* run_run, lines 310-333: the strategy is parsed and the runner is built
RunRunStart ==
    /\ cli_pc = "start"
    /\ \E known_strategy \in BOOLEAN :
          \/ /\ known_strategy
             /\ cli_pc' = "loop"
             /\ UNCHANGED <<outcome, exit_code>>
          \/ /\ ~known_strategy
             /\ ExitWith("Err")
    /\ UNCHANGED <<runVars, graphs_left, all_success, executed, levelVars, pipeVars>>

\* run_run, lines 336-352: the next graph is read, compiled and filtered, and the
\* runner starts on its plan
RunRunNext ==
    /\ cli_pc = "loop"
    /\ graphs_left > 0
    /\ \E compiled \in BOOLEAN :
          \/ /\ compiled
             /\ \E p \in CliPlans : plan' = p
             /\ pc' = "select"
             /\ cli_pc' = "running"
             /\ UNCHANGED <<outcome, exit_code>>
          \/ /\ ~compiled
             /\ ExitWith("Err")
             /\ UNCHANGED <<plan, pc>>
    /\ UNCHANGED <<config, registry, backend, harness, context, results, failed_nodes,
                   stop, calls, run_result>>
    /\ UNCHANGED <<graphs_left, all_success, executed, levelVars, pipeVars>>

\* run_run, lines 379-381: all_success after a run
all_success_after_last_run_only(all, summary) == success(summary)

all_success_after(all, summary) == IF ~success(summary) THEN FALSE ELSE all

\* run_run, lines 352-382: the run has returned; its report is emitted and its
\* summary is folded into all_success
RunRunCollect ==
    /\ cli_pc = "running"
    /\ pc = "done"
    /\ \/ /\ run_result.state = "Err"
          /\ ExitWith("Err")
          /\ UNCHANGED <<graphs_left, all_success, executed>>
       \/ /\ run_result.state = "Ok"
          /\ executed' = Append(executed, [i \in DOMAIN run_result.steps |->
                                              run_result.steps[i].status])
          /\ \E emitted \in BOOLEAN :
                \/ /\ emitted
                   /\ all_success' = all_success_after(all_success, run_result.summary)
                   /\ graphs_left' = graphs_left - 1
                   /\ cli_pc' = "loop"
                   /\ UNCHANGED <<outcome, exit_code>>
                \/ /\ ~emitted
                   /\ ExitWith("Err")
                   /\ UNCHANGED <<graphs_left, all_success>>
    /\ DropRun
    /\ UNCHANGED <<config, registry, levelVars, pipeVars>>

\* run_run, line 385, and main: every graph was run
RunRunExit ==
    /\ cli_pc = "loop"
    /\ graphs_left = 0
    /\ ExitWith(IF all_success THEN "Ok(true)" ELSE "Ok(false)")
    /\ UNCHANGED <<runVars, graphs_left, all_success, executed, levelVars, pipeVars>>

NextCli ==
    \/ RunRunStart
    \/ RunRunNext
    \/ SelectBackend
    \/ GenerateHarness
    \/ ExecuteSteps
    \/ FinishRun
    \/ RunRunCollect
    \/ RunRunExit

SpecCli == InitCli /\ [][NextCli]_vars

(***************************************************************************)
(* TestRunner::execution_levels (runner/executor.rs): the plan's steps are *)
(* split into levels, one pass of the while loop per level.                *)
(***************************************************************************)
\* execution_levels, lines 223-226: all depends_on names of the step are assigned
deps_satisfied(step, names) == \A d \in step.depends_on : d \in names

\* execution_levels, lines 234-239, without the push of the unsatisfiable steps
levels_at_break_without_push(lv, still_remaining) == lv

\* execution_levels, lines 234-239: no step is ready; the rest forms a final level
levels_at_break(lv, still_remaining) == Append(lv, still_remaining)

InitLevels ==
    /\ \E cfg \in RunConfigs : config = cfg
    /\ registry = << >>
    /\ \E p \in ControlPlans : plan = p /\ remaining = [i \in DOMAIN p.steps |-> i]
    /\ pc = "idle"
    /\ backend = NoBackend
    /\ harness = "none"
    /\ context = EmptyMap
    /\ results = << >>
    /\ failed_nodes = {}
    /\ stop = FALSE
    /\ calls = << >>
    /\ run_result = RunPending
    /\ NoCommand
    /\ NoPipeline
    /\ lv_pc = "loop"
    /\ levels = << >>
    /\ assigned = {}
    /\ lv_backend = EmptyMap
    /\ lv_run = LoopLocals(<< >>, {}, FALSE)

\* one pass of the while loop of execution_levels, lines 218-246
LevelsPass ==
    /\ lv_pc = "loop"
    /\ remaining # << >>
    /\ LET Ready(i) == deps_satisfied(plan.steps[i], assigned)
           Waiting(i) == ~deps_satisfied(plan.steps[i], assigned)
           current_level == SelectSeq(remaining, Ready)
           still_remaining == SelectSeq(remaining, Waiting)
       IN  \/ /\ current_level = << >>
              /\ levels' = levels_at_break(levels, still_remaining)
              /\ lv_pc' = "done"
              /\ UNCHANGED <<assigned, remaining>>
           \/ /\ current_level # << >>
              /\ assigned' = assigned \cup {plan.steps[i].node : i \in Range(current_level)}
              /\ levels' = Append(levels, current_level)
              /\ remaining' = still_remaining
              /\ UNCHANGED lv_pc
    /\ UNCHANGED <<lv_backend, lv_run>>
    /\ UNCHANGED <<runVars, cliVars, pipeVars>>

\* execution_levels, lines 218 and 248: nothing remains and the levels are returned
LevelsReturn ==
    /\ lv_pc = "loop"
    /\ remaining = << >>
    /\ lv_pc' = "done"
    /\ UNCHANGED <<levels, assigned, remaining, lv_backend, lv_run>>
    /\ UNCHANGED <<runVars, cliVars, pipeVars>>

NextLevels == LevelsPass \/ LevelsReturn

\* the function runs on until it returns
SpecLevels == InitLevels /\ [][NextLevels]_vars /\ WF_vars(NextLevels)

(***************************************************************************)
(* TestRunner::execute_by_levels next to execute_steps, under a backend    *)
(* whose answer for a step depends on the step alone.                      *)
(***************************************************************************)
\* what such a backend does with a step: Ok with a passed or a failed result, or Err
StepOutcomes == {"passed", "failed", "Err"}

\* TestBackend::execute_step of the backend that answers by node
FixedExecuteStep(answers, step, ctx) ==
    IF answers[step.node] = "passed"
    THEN Returned(TRUE, Passed(step.node), ctx, NotResolved)
    ELSE IF answers[step.node] = "failed"
         THEN Returned(TRUE, Failed(step.node, "AssertionFailed"), ctx, NotResolved)
         ELSE Returned(FALSE, NoResult, ctx, NotResolved)

\* the body of the loop over the steps, the same text in execute_steps (lines 150-175)
\* and in execute_by_levels (lines 269-292)
loop_body(locals, step, fail_fast, answers) ==
    IF locals.stop THEN [locals EXCEPT !.results = Append(@, Skipped(step.node))]
    ELSE IF has_failed_dependency(step, locals.failed_nodes)
         THEN [locals EXCEPT !.results = Append(@, Skipped(step.node))]
         ELSE LET result == execute_step(step, FixedExecuteStep(answers, step, EmptyMap))
              IN  LoopLocals(Append(locals.results, result),
                             failed_after(locals.failed_nodes, step, result),
                             stop_after(locals.stop, fail_fast, result))

RECURSIVE loop_over(_, _, _, _)
\* the loop over a list of steps, lines 149-176 and 267-294
loop_over(steps, locals, fail_fast, answers) ==
    IF steps = << >> THEN locals
    ELSE loop_over(Tail(steps), loop_body(locals, Head(steps), fail_fast, answers),
                   fail_fast, answers)

RECURSIVE steps_of_levels(_, _)
\* execute_by_levels, lines 267-268: the steps in the order the two loops visit them
steps_of_levels(p, lvs) ==
    IF lvs = << >> THEN << >>
    ELSE [k \in DOMAIN Head(lvs) |-> p.steps[Head(lvs)[k]]] \o steps_of_levels(p, Tail(lvs))

\* a plan waits for execution_levels, and the backend's answers are fixed
InitByLevels ==
    /\ \E cfg \in RunConfigs : config = cfg /\ cfg.backend_name = None
    /\ registry = << >>
    /\ \E p \in ControlPlans :
          /\ plan = p
          /\ remaining = [i \in DOMAIN p.steps |-> i]
          /\ lv_backend \in [{p.steps[i].node : i \in DOMAIN p.steps} -> StepOutcomes]
    /\ pc = "idle"
    /\ backend = NoBackend
    /\ harness = "none"
    /\ context = EmptyMap
    /\ results = << >>
    /\ failed_nodes = {}
    /\ stop = FALSE
    /\ calls = << >>
    /\ run_result = RunPending
    /\ NoCommand
    /\ NoPipeline
    /\ lv_pc = "loop"
    /\ levels = << >>
    /\ assigned = {}
    /\ lv_run = LoopLocals(<< >>, {}, FALSE)

\* execute_by_levels, lines 262-296: the levels are walked and the results returned
ExecuteByLevels ==
    /\ lv_pc = "done"
    /\ lv_run' = loop_over(steps_of_levels(plan, levels), LoopLocals(<< >>, {}, FALSE),
                           config.fail_fast, lv_backend)
    /\ lv_pc' = "executed"
    /\ UNCHANGED <<levels, assigned, remaining, lv_backend>>
    /\ UNCHANGED <<runVars, cliVars, pipeVars>>

\* execute_steps, lines 145-178, on the same plan with the same backend
ExecuteStepsInPlanOrder ==
    /\ lv_pc = "executed"
    /\ pc = "idle"
    /\ LET locals == loop_over(plan.steps, LoopLocals(<< >>, {}, FALSE),
                               config.fail_fast, lv_backend)
       IN  /\ results' = locals.results
           /\ failed_nodes' = locals.failed_nodes
           /\ stop' = locals.stop
    /\ pc' = "steps"
    /\ UNCHANGED <<config, registry, plan, backend, harness, context, calls, run_result>>
    /\ UNCHANGED <<cliVars, levelVars, pipeVars>>

NextByLevels == LevelsPass \/ LevelsReturn \/ ExecuteByLevels \/ ExecuteStepsInPlanOrder

SpecByLevels == InitByLevels /\ [][NextByLevels]_vars

(***************************************************************************)
(* Test graphs (ir/mod.rs, graph/builder.rs): the petgraph DiGraph that    *)
(* build makes of an IR graph.  NodeIndex i is the i-th node added.        *)
(***************************************************************************)
IrNode(name, tags, requires) == [name |-> name, tags |-> tags, requires |-> requires]

IrEdge(from, to, from_index, to_index, passes) ==
    [from |-> from, to |-> to, from_index |-> from_index, to_index |-> to_index,
     passes |-> passes]

\* the sequences over S of length at most k
SeqsUpTo(S, k) == UNION {[1..m -> S] : m \in 0..k}

Reverse(sq) == [i \in 1..Len(sq) |-> sq[Len(sq) + 1 - i]]

\* n nodes without tags and requires
PlainNodes(n) == [i \in 1..n |-> IrNode(NodeNames[i], {}, {})]

\* the edges between local nodes, each with one of the passes lists P
LocalEdges(n, P) ==
    {IrEdge(NodeNames[u], NodeNames[v], u, v, ps) : u \in 1..n, v \in 1..n, ps \in P}

\* the graphs of n nodes whose edges pass nothing, and those whose edges may pass a field
ControlGraphs(n) ==
    {TestGraph(PlainNodes(n), es) : es \in SeqsUpTo(LocalEdges(n, {<< >>}), MaxEdges)}

DataGraphs(n) ==
    {TestGraph(PlainNodes(n), es)
     : es \in SeqsUpTo(LocalEdges(n, {<< >>, FieldSeq}), MaxEdges)}

\* DiGraph::neighbors_directed(a, Outgoing): the targets of a's edges, the edge added
\* last first
neighbors_outgoing(tg, a) ==
    LET From(e) == e.from_index = a
        es == SelectSeq(Reverse(tg.edges), From)
    IN  [k \in DOMAIN es |-> es[k].to_index]

\* DiGraph::neighbors_directed(a, Incoming)
neighbors_incoming(tg, a) ==
    LET To(e) == e.to_index = a
        es == SelectSeq(Reverse(tg.edges), To)
    IN  [k \in DOMAIN es |-> es[k].from_index]

\* analysis::root_nodes: the nodes without incoming edge, in index order
root_nodes(tg) ==
    LET NoIncoming(i) == neighbors_incoming(tg, i) = << >>
    IN  SelectSeq([i \in DOMAIN tg.nodes |-> i], NoIncoming)

\* the members of sq that are not in the set
Undiscovered(sq, discovered) ==
    LET New(x) == x \notin discovered IN SelectSeq(sq, New)

RECURSIVE dfs_walk(_, _, _, _, _)
\* depth_first, lines 56-60: the loop over Dfs::next for one root
dfs_walk(tg, stack, discovered, visited, seen) ==
    IF stack = << >> THEN [visited |-> visited, seen |-> seen]
    ELSE LET node == stack[Len(stack)]
             rest == SubSeq(stack, 1, Len(stack) - 1)
         IN  IF node \in discovered THEN dfs_walk(tg, rest, discovered, visited, seen)
             ELSE LET d2 == discovered \cup {node}
                      st2 == rest \o Undiscovered(neighbors_outgoing(tg, node), d2)
                  IN  IF node \in seen THEN dfs_walk(tg, st2, d2, visited, seen)
                      ELSE dfs_walk(tg, st2, d2, Append(visited, node), seen \cup {node})

RECURSIVE dfs_roots(_, _, _, _)
dfs_roots(tg, roots, visited, seen) ==
    IF roots = << >> THEN visited
    ELSE LET r == dfs_walk(tg, <<Head(roots)>>, {}, visited, seen)
         IN  dfs_roots(tg, Tail(roots), r.visited, r.seen)

\* traversal::depth_first
depth_first(tg) == dfs_roots(tg, root_nodes(tg), << >>, {})

RECURSIVE bfs_push(_, _, _)
\* Bfs::next: the successors not yet discovered join the queue
bfs_push(queue, succs, discovered) ==
    IF succs = << >> THEN [queue |-> queue, discovered |-> discovered]
    ELSE IF Head(succs) \in discovered THEN bfs_push(queue, Tail(succs), discovered)
    ELSE bfs_push(Append(queue, Head(succs)), Tail(succs), discovered \cup {Head(succs)})

RECURSIVE bfs_walk(_, _, _, _, _)
\* breadth_first, lines 76-80: the loop over Bfs::next for one root
bfs_walk(tg, queue, discovered, visited, seen) ==
    IF queue = << >> THEN [visited |-> visited, seen |-> seen]
    ELSE LET node == Head(queue)
             r == bfs_push(Tail(queue), neighbors_outgoing(tg, node), discovered)
         IN  IF node \in seen THEN bfs_walk(tg, r.queue, r.discovered, visited, seen)
             ELSE bfs_walk(tg, r.queue, r.discovered, Append(visited, node),
                           seen \cup {node})

RECURSIVE bfs_roots(_, _, _, _)
bfs_roots(tg, roots, visited, seen) ==
    IF roots = << >> THEN visited
    ELSE LET r == bfs_walk(tg, <<Head(roots)>>, {Head(roots)}, visited, seen)
         IN  bfs_roots(tg, Tail(roots), r.visited, r.seen)

\* traversal::breadth_first
breadth_first(tg) == bfs_roots(tg, root_nodes(tg), << >>, {})

RECURSIVE topo_visit(_, _, _, _, _)
\* petgraph::algo::toposort, first pass: the depth-first walk from one start node; a
\* node is pushed to finish_stack when it is met on the stack a second time
topo_visit(tg, stack, discovered, finished, finish_stack) ==
    IF stack = << >>
    THEN [err |-> FALSE, node |-> 0, discovered |-> discovered, finished |-> finished,
          finish_stack |-> finish_stack]
    ELSE LET nx == stack[Len(stack)]
         IN  IF nx \notin discovered
             THEN LET d2 == discovered \cup {nx}
                      succs == neighbors_outgoing(tg, nx)
                  IN  IF nx \in Range(succs)
                      THEN [err |-> TRUE, node |-> nx, discovered |-> d2,
                            finished |-> finished, finish_stack |-> finish_stack]
                      ELSE topo_visit(tg, stack \o Undiscovered(succs, d2), d2, finished,
                                      finish_stack)
             ELSE LET rest == SubSeq(stack, 1, Len(stack) - 1)
                  IN  IF nx \in finished
                      THEN topo_visit(tg, rest, discovered, finished, finish_stack)
                      ELSE topo_visit(tg, rest, discovered, finished \cup {nx},
                                      Append(finish_stack, nx))

RECURSIVE topo_starts(_, _, _, _, _)
\* toposort, first pass: the start nodes are taken from the last node to the first
topo_starts(tg, ids, discovered, finished, finish_stack) ==
    IF ids = << >> THEN [err |-> FALSE, node |-> 0, finish_stack |-> finish_stack]
    ELSE IF Head(ids) \in discovered
    THEN topo_starts(tg, Tail(ids), discovered, finished, finish_stack)
    ELSE LET r == topo_visit(tg, <<Head(ids)>>, discovered, finished, finish_stack)
         IN  IF r.err THEN [err |-> TRUE, node |-> r.node, finish_stack |-> << >>]
             ELSE topo_starts(tg, Tail(ids), r.discovered, r.finished, r.finish_stack)

RECURSIVE topo_reach(_, _, _, _)
\* toposort, second pass: Dfs::next on the reversed graph from one node of the order;
\* a second node reached is a cycle
topo_reach(tg, stack, discovered, met) ==
    IF stack = << >> THEN [err |-> FALSE, node |-> 0, discovered |-> discovered]
    ELSE LET j == stack[Len(stack)]
             rest == SubSeq(stack, 1, Len(stack) - 1)
         IN  IF j \in discovered THEN topo_reach(tg, rest, discovered, met)
             ELSE IF met THEN [err |-> TRUE, node |-> j, discovered |-> discovered]
             ELSE LET d2 == discovered \cup {j}
                  IN  topo_reach(tg, rest \o Undiscovered(neighbors_incoming(tg, j), d2),
                                 d2, TRUE)

RECURSIVE topo_check(_, _, _)
topo_check(tg, order, discovered) ==
    IF order = << >> THEN [err |-> FALSE, node |-> 0]
    ELSE LET r == topo_reach(tg, <<Head(order)>>, discovered, FALSE)
         IN  IF r.err THEN [err |-> TRUE, node |-> r.node]
             ELSE topo_check(tg, Tail(order), r.discovered)

\* toposort that returns the finish order as it stands, the last finished node last
toposort_in_finish_order(tg) ==
    LET first == topo_starts(tg, Reverse([i \in DOMAIN tg.nodes |-> i]), {}, {}, << >>)
    IN  IF first.err THEN SortedErr(first.node) ELSE SortedOk(first.finish_stack)

\* petgraph::algo::toposort(&tg.graph, None)
toposort(tg) ==
    LET first == topo_starts(tg, Reverse([i \in DOMAIN tg.nodes |-> i]), {}, {}, << >>)
        order == Reverse(first.finish_stack)
        second == topo_check(tg, order, {})
    IN  IF first.err THEN SortedErr(first.node)
        ELSE IF second.err THEN SortedErr(second.node)
        ELSE SortedOk(order)

\* traversal::topological
topological(tg) == toposort(tg)

Strategies == {"topological", "dfs", "bfs"}

\* traversal::traverse
traverse(tg, strat) ==
    IF strat = "topological" THEN topological(tg)
    ELSE IF strat = "dfs" THEN SortedOk(depth_first(tg))
    ELSE SortedOk(breadth_first(tg))

\* what dfs_find_cycle leaves behind
CycleSearch(found, path, visited, in_stack, stack_path) ==
    [found |-> found, path |-> path, visited |-> visited, in_stack |-> in_stack,
     stack_path |-> stack_path]

RECURSIVE dfs_find_cycle(_, _, _), dfs_find_cycle_loop(_, _, _)
RECURSIVE dfs_find_cycle_loop_whole_stack(_, _, _)
\* the loop over the neighbours that returns the whole stack as the cycle
dfs_find_cycle_loop_whole_stack(tg, nbrs, st) ==
    IF nbrs = << >> THEN st
    ELSE LET neighbor == Head(nbrs)
         IN  IF neighbor \notin st.visited
             THEN LET r == dfs_find_cycle(tg, neighbor, st)
                  IN  IF r.found THEN r
                      ELSE dfs_find_cycle_loop_whole_stack(tg, Tail(nbrs), r)
             ELSE IF neighbor \in st.in_stack
             THEN [st EXCEPT !.found = TRUE,
                             !.path = [k \in DOMAIN st.stack_path |->
                                          tg.nodes[st.stack_path[k]].name]]
             ELSE dfs_find_cycle_loop_whole_stack(tg, Tail(nbrs), st)

\* analysis::dfs_find_cycle, lines 45-59: the loop over the neighbours
dfs_find_cycle_loop(tg, nbrs, st) ==
    IF nbrs = << >> THEN st
    ELSE LET neighbor == Head(nbrs)
         IN  IF neighbor \notin st.visited
             THEN LET r == dfs_find_cycle(tg, neighbor, st)
                  IN  IF r.found THEN r ELSE dfs_find_cycle_loop(tg, Tail(nbrs), r)
             ELSE IF neighbor \in st.in_stack
             THEN LET cycle_start == CHOOSE k \in DOMAIN st.stack_path :
                                        /\ st.stack_path[k] = neighbor
                                        /\ \A m \in 1..(k - 1) : st.stack_path[m] # neighbor
                      ns == SubSeq(st.stack_path, cycle_start, Len(st.stack_path))
                  IN  [st EXCEPT !.found = TRUE,
                                 !.path = [k \in DOMAIN ns |-> tg.nodes[ns[k]].name]]
             ELSE dfs_find_cycle_loop(tg, Tail(nbrs), st)

\* analysis::dfs_find_cycle
dfs_find_cycle(tg, node, st) ==
    LET entered == [st EXCEPT !.visited = @ \cup {node}, !.in_stack = @ \cup {node},
                              !.stack_path = Append(@, node)]
        r == dfs_find_cycle_loop(tg, neighbors_outgoing(tg, node), entered)
    IN  IF r.found THEN r
        ELSE [r EXCEPT !.in_stack = @ \ {node},
                       !.stack_path = SubSeq(@, 1, Len(@) - 1)]

RECURSIVE find_cycle_from(_, _, _)
\* analysis::find_cycle, lines 22-29: the loop over the start nodes
find_cycle_from(tg, starts, st) ==
    IF starts = << >> THEN CycleNone
    ELSE IF Head(starts) \in st.visited THEN find_cycle_from(tg, Tail(starts), st)
    ELSE LET r == dfs_find_cycle(tg, Head(starts), st)
         IN  IF r.found THEN CycleSome(r.path) ELSE find_cycle_from(tg, Tail(starts), r)

\* find_cycle that searches from the first node only
find_cycle_from_first_node(tg) ==
    find_cycle_from(tg, <<1>>, CycleSearch(FALSE, << >>, {}, {}, << >>))

\* analysis::find_cycle
find_cycle(tg) ==
    find_cycle_from(tg, [i \in DOMAIN tg.nodes |-> i],
                    CycleSearch(FALSE, << >>, {}, {}, << >>))

(***************************************************************************)
(* The plan compiler (plan/compiler.rs).                                   *)
(***************************************************************************)
RECURSIVE inputs_from_passes(_, _)
\* compile_with_strategy, lines 46-51: one input per field of the edge's passes
inputs_from_passes(passes, from) ==
    IF passes = << >> THEN << >>
    ELSE <<InputEntry(Head(passes), from)>> \o inputs_from_passes(Tail(passes), from)

RECURSIVE inputs_of_node(_, _)
\* compile_with_strategy, lines 41-53: the inputs of a node, over the edges in index order
inputs_of_node(edges, node_idx) ==
    IF edges = << >> THEN << >>
    ELSE (IF Head(edges).to_index = node_idx
          THEN inputs_from_passes(Head(edges).passes, Head(edges).from)
          ELSE << >>) \o inputs_of_node(Tail(edges), node_idx)

\* compile_with_strategy, lines 30-67: the step made of one node
step_of_node(tg, node_idx) ==
    PlanStep(tg.nodes[node_idx].name,
             {tg.nodes[pred].name : pred \in Range(neighbors_incoming(tg, node_idx))},
             inputs_of_node(tg.edges, node_idx),
             UNION {Range(tg.edges[k].passes)
                    : k \in {m \in DOMAIN tg.edges : tg.edges[m].from_index = node_idx}})

\* plan::compiler::compile_with_strategy
compile_with_strategy(tg, strat) ==
    LET r == traverse(tg, strat)
    IN  IF r.state = "Err" THEN CompiledErr
        ELSE CompiledOk(TestPlan([k \in DOMAIN r.order |-> step_of_node(tg, r.order[k])]),
                        PlanMetadata(Len(tg.nodes), Len(tg.edges)))

\* a graph has been built and nothing else has happened
Built(tg) ==
    /\ graph = tg
    /\ g_pc = "built"
    /\ strategy = None
    /\ sorted = NotSorted
    /\ cplan = NotCompiled
    /\ cycle = NotAnalysed
    /\ spath = NoPathQuery
    /\ \E cfg \in RunConfigs : config = cfg /\ cfg.backend_name = None /\ ~cfg.fail_fast
    /\ registry = << >>
    /\ RunnerIdle
    /\ NoCommand
    /\ NoLevels
    /\ NoLowering
    /\ NoFilter

InitGraph == \E n \in 0..MaxNodes : \E tg \in ControlGraphs(n) : Built(tg)

InitCompile == \E n \in 0..MaxNodes : \E tg \in DataGraphs(n) : Built(tg)

\* traversal::topological is called on the graph
Topological ==
    /\ g_pc = "built"
    /\ strategy' = "topological"
    /\ sorted' = topological(graph)
    /\ g_pc' = "traversed"
    /\ UNCHANGED <<graph, cplan, cycle, spath>>
    /\ UNCHANGED <<runVars, cliVars, levelVars, lowerVars, filterVars>>

\* traversal::depth_first is called on the graph
DepthFirst ==
    /\ g_pc = "built"
    /\ strategy' = "dfs"
    /\ sorted' = SortedOk(depth_first(graph))
    /\ g_pc' = "traversed"
    /\ UNCHANGED <<graph, cplan, cycle, spath>>
    /\ UNCHANGED <<runVars, cliVars, levelVars, lowerVars, filterVars>>

\* traversal::breadth_first is called on the graph
BreadthFirst ==
    /\ g_pc = "built"
    /\ strategy' = "bfs"
    /\ sorted' = SortedOk(breadth_first(graph))
    /\ g_pc' = "traversed"
    /\ UNCHANGED <<graph, cplan, cycle, spath>>
    /\ UNCHANGED <<runVars, cliVars, levelVars, lowerVars, filterVars>>

\* compile_with_strategy is called on the graph with one of the strategies
CompileWithStrategy ==
    /\ g_pc = "built"
    /\ \E strat \in Strategies :
          /\ strategy' = strat
          /\ sorted' = traverse(graph, strat)
          /\ cplan' = compile_with_strategy(graph, strat)
    /\ g_pc' = "compiled"
    /\ UNCHANGED <<graph, cycle, spath>>
    /\ UNCHANGED <<runVars, cliVars, levelVars, lowerVars, filterVars>>

\* analysis::find_cycle is called on the graph
FindCycle ==
    /\ g_pc # "none"
    /\ cycle.state = "none"
    /\ cycle' = find_cycle(graph)
    /\ UNCHANGED <<graph, g_pc, strategy, sorted, cplan, spath>>
    /\ UNCHANGED <<runVars, cliVars, levelVars, lowerVars, filterVars>>

NextGraph ==
    \/ Topological
    \/ DepthFirst
    \/ BreadthFirst
    \/ CompileWithStrategy
    \/ FindCycle

\* traversal::find_node_by_name: the index of the first node of that name (0: None)
find_node_by_name(tg, name) ==
    LET hits == {k \in DOMAIN tg.nodes : tg.nodes[k].name = name}
    IN  IF hits = {} THEN 0 ELSE CHOOSE k \in hits : \A m \in hits : k <= m

\* the enqueueing in which a neighbour that still waits in the queue takes the node
\* that found it last as its came_from entry
RECURSIVE enqueue_neighbors_last_finder(_, _, _, _, _)
enqueue_neighbors_last_finder(nbrs, current, from_idx, queue, came_from) ==
    IF nbrs = << >> THEN [queue |-> queue, came_from |-> came_from]
    ELSE IF Head(nbrs) \notin DOMAIN came_from /\ Head(nbrs) # from_idx
         THEN enqueue_neighbors_last_finder(Tail(nbrs), current, from_idx,
                                            Append(queue, Head(nbrs)),
                                            MapInsert(came_from, Head(nbrs), current))
         ELSE IF Head(nbrs) \in Range(queue)
              THEN enqueue_neighbors_last_finder(Tail(nbrs), current, from_idx, queue,
                                                 MapInsert(came_from, Head(nbrs), current))
              ELSE enqueue_neighbors_last_finder(Tail(nbrs), current, from_idx, queue,
                                                 came_from)

\* shortest_path, lines 127-132: each neighbour that has no came_from entry and is
\* not the start gets one and joins the queue
RECURSIVE enqueue_neighbors(_, _, _, _, _)
enqueue_neighbors(nbrs, current, from_idx, queue, came_from) ==
    IF nbrs = << >> THEN [queue |-> queue, came_from |-> came_from]
    ELSE IF Head(nbrs) \notin DOMAIN came_from /\ Head(nbrs) # from_idx
         THEN enqueue_neighbors(Tail(nbrs), current, from_idx,
                                Append(queue, Head(nbrs)),
                                MapInsert(came_from, Head(nbrs), current))
         ELSE enqueue_neighbors(Tail(nbrs), current, from_idx, queue, came_from)

\* shortest_path, lines 116-124: the path read back from came_from, start first
RECURSIVE reconstruct_path(_, _, _)
reconstruct_path(came_from, node, from_idx) ==
    IF node = from_idx THEN <<from_idx>>
    ELSE Append(reconstruct_path(came_from, came_from[node], from_idx), node)

\* the search that takes the queue from its newer end, a depth-first search
RECURSIVE shortest_path_from_queue_back(_, _, _, _, _)
shortest_path_from_queue_back(tg, queue, came_from, from_idx, to_idx) ==
    IF queue = << >> THEN << >>
    ELSE LET current == queue[Len(queue)]
         IN  IF current = to_idx THEN reconstruct_path(came_from, to_idx, from_idx)
             ELSE LET r == enqueue_neighbors(neighbors_outgoing(tg, current), current,
                                             from_idx, SubSeq(queue, 1, Len(queue) - 1),
                                             came_from)
                  IN  shortest_path_from_queue_back(tg, r.queue, r.came_from,
                                                    from_idx, to_idx)

\* shortest_path, lines 110-135: the loop over the queue; << >> stands for "no path"
RECURSIVE shortest_path_loop(_, _, _, _, _)
shortest_path_loop(tg, queue, came_from, from_idx, to_idx) ==
    IF queue = << >> THEN << >>
    ELSE LET current == Head(queue)
         IN  IF current = to_idx THEN reconstruct_path(came_from, to_idx, from_idx)
             ELSE LET r == enqueue_neighbors(neighbors_outgoing(tg, current), current,
                                             from_idx, Tail(queue), came_from)
                  IN  shortest_path_loop(tg, r.queue, r.came_from, from_idx, to_idx)

\* traversal::shortest_path
shortest_path(tg, from_name, to_name) ==
    LET from_idx == find_node_by_name(tg, from_name)
        to_idx == find_node_by_name(tg, to_name)
    IN  IF from_idx = 0 \/ to_idx = 0 THEN PathErr(from_name, to_name)
        ELSE IF from_idx = to_idx THEN PathOk(from_name, to_name, <<from_idx>>)
        ELSE LET path == shortest_path_loop(tg, <<from_idx>>, << >>, from_idx, to_idx)
             IN  IF path = << >> THEN PathErr(from_name, to_name)
                 ELSE PathOk(from_name, to_name, path)

\* shortest_path is called on the graph with two names
ShortestPath ==
    /\ g_pc = "built"
    /\ spath.state = "none"
    /\ \E from_name, to_name \in {graph.nodes[k].name : k \in DOMAIN graph.nodes} \cup {Absent} :
          spath' = shortest_path(graph, from_name, to_name)
    /\ UNCHANGED <<graph, g_pc, strategy, sorted, cplan, cycle>>
    /\ UNCHANGED <<runVars, cliVars, levelVars, lowerVars, filterVars>>

\* graphs whose edges pass nothing, asked for a shortest path
SpecPath == InitGraph /\ [][ShortestPath]_vars

\* graphs whose edges pass nothing
SpecGraph == InitGraph /\ [][NextGraph]_vars

\* graphs whose edges may pass fields
SpecCompile == InitCompile /\ [][NextGraph]_vars

(***************************************************************************)
(* Lowering (ir/mod.rs, ir/validate.rs) and import resolution              *)
(* (ir/resolve.rs, cli/commands.rs).  A name is a sequence of characters.  *)
(* Indices are 1-based: the index 0 of the code is the index 1 here.       *)
(***************************************************************************)
\* the index a dotted endpoint gets in lower (0 in the code)
Placeholder == 1

\* lower, lines 147-151: node_index.get(name); a later node of the same name replaces
\* an earlier one in the map; 0 stands for None
node_index(nodes, name) ==
    IF \E i \in DOMAIN nodes : nodes[i].name = name
    THEN CHOOSE i \in DOMAIN nodes :
             nodes[i].name = name /\ \A j \in DOMAIN nodes : nodes[j].name = name => j <= i
    ELSE 0

RECURSIVE lower_edges(_, _)
\* lower, lines 153-181: the loop over the edges
lower_edges(nodes, edges) ==
    IF edges = << >> THEN [err |-> FALSE, edges |-> << >>]
    ELSE LET e == Head(edges)
             from_idx == IF contains_dot(e.from) THEN Placeholder
                         ELSE node_index(nodes, e.from)
             to_idx == IF contains_dot(e.to) THEN Placeholder ELSE node_index(nodes, e.to)
             rest == lower_edges(nodes, Tail(edges))
         IN  IF from_idx = 0 \/ to_idx = 0 \/ rest.err
             THEN [err |-> TRUE, edges |-> << >>]
             ELSE [err |-> FALSE,
                   edges |-> <<IrEdge(e.from, e.to, from_idx, to_idx, e.passes)>>
                                 \o rest.edges]

\* validate::check_duplicate_nodes: TRUE when the check passes
check_duplicate_nodes(ir) ==
    \A i \in DOMAIN ir.nodes, j \in DOMAIN ir.nodes :
        i < j => ir.nodes[i].name # ir.nodes[j].name

\* validate::check_requires_satisfied: TRUE when the check passes
check_requires_satisfied(ir) ==
    \A i \in DOMAIN ir.nodes :
        LET available == UNION {Range(ir.edges[k].passes)
                                : k \in {m \in DOMAIN ir.edges : ir.edges[m].to_index = i}}
        IN  ir.nodes[i].requires = {} \/ ir.nodes[i].requires \subseteq available

\* validate::validate_graph: the error, or None
validate_graph(ir) ==
    IF ~check_duplicate_nodes(ir) THEN "duplicate node name"
    ELSE IF ~check_requires_satisfied(ir) THEN "unsatisfied requires field"
    ELSE None

\* ir::lower
lower(ast_graph) ==
    LET nodes == [i \in DOMAIN ast_graph.nodes |->
                     IrNode(ast_graph.nodes[i].name, {}, ast_graph.nodes[i].requires)]
        es == lower_edges(nodes, ast_graph.edges)
        ir == IrGraph(nodes, es.edges)
    IN  IF es.err THEN LowerErr("edge references unknown node")
        ELSE IF validate_graph(ir) # None THEN LowerErr(validate_graph(ir))
        ELSE LowerOk(ir)

RECURSIVE lower_all(_)
\* resolve_imports, lines 63-68: every graph of the file is lowered
lower_all(ast_graphs) ==
    IF ast_graphs = << >> THEN [err |-> FALSE, graphs |-> << >>]
    ELSE LET ir == lower(Head(ast_graphs))
             rest == lower_all(Tail(ast_graphs))
         IN  IF ir.state = "Err" \/ rest.err THEN [err |-> TRUE, graphs |-> << >>]
             ELSE [err |-> FALSE, graphs |-> <<ir.ir>> \o rest.graphs]

RECURSIVE resolve_imports_loop_without_cache(_, _, _, _, _)
\* the loop over the imports that never looks into loaded
resolve_imports_loop_without_cache(resolver, imports, files, resolved, reads) ==
    IF imports = << >> THEN ResolveOk(resolved, resolver, reads)
    ELSE LET import == Head(imports)
             canonical == canonicalize(import.path)
             file == files[canonical]
         IN  IF file.status = "missing"
             THEN ResolveErr("failed to resolve import", resolver, reads)
             ELSE IF canonical \in resolver.in_progress
             THEN ResolveErr("circular import detected", resolver, reads)
             ELSE LET entered == [resolver EXCEPT !.in_progress = @ \cup {canonical}]
                      reads2 == Append(reads, [path |-> canonical,
                                               in_progress |-> resolver.in_progress])
                      ir_graphs == lower_all(file.graphs)
                  IN  IF file.status = "unreadable"
                      THEN ResolveErr("failed to read import", entered, reads2)
                      ELSE IF file.status = "unparsable" \/ ir_graphs.err
                      THEN ResolveErr("error in imported file", entered, reads2)
                      ELSE resolve_imports_loop_without_cache(
                               ImportResolver(
                                   [p \in DOMAIN resolver.loaded \cup {canonical} |->
                                       IF p = canonical THEN ir_graphs.graphs
                                       ELSE resolver.loaded[p]],
                                   entered.in_progress \ {canonical}),
                               Tail(imports), files,
                               Append(resolved, ResolvedImport(import.name, ir_graphs.graphs)),
                               reads2)

RECURSIVE resolve_imports_loop(_, _, _, _, _)
\* resolve_imports, lines 42-79: the loop over the imports; reads lists every file the
\* resolver opened, with the in-progress set it had when it decided to open it
resolve_imports_loop(resolver, imports, files, resolved, reads) ==
    IF imports = << >> THEN ResolveOk(resolved, resolver, reads)
    ELSE LET import == Head(imports)
             canonical == canonicalize(import.path)
             file == files[canonical]
         IN  IF file.status = "missing"
             THEN ResolveErr("failed to resolve import", resolver, reads)
             ELSE IF canonical \in resolver.in_progress
             THEN ResolveErr("circular import detected", resolver, reads)
             ELSE IF canonical \in DOMAIN resolver.loaded
             THEN resolve_imports_loop(
                      resolver, Tail(imports), files,
                      Append(resolved, ResolvedImport(import.name, resolver.loaded[canonical])),
                      reads)
             ELSE LET entered == [resolver EXCEPT !.in_progress = @ \cup {canonical}]
                      reads2 == Append(reads, [path |-> canonical,
                                               in_progress |-> resolver.in_progress])
                      ir_graphs == lower_all(file.graphs)
                  IN  IF file.status = "unreadable"
                      THEN ResolveErr("failed to read import", entered, reads2)
                      ELSE IF file.status = "unparsable" \/ ir_graphs.err
                      THEN ResolveErr("error in imported file", entered, reads2)
                      ELSE resolve_imports_loop(
                               ImportResolver(
                                   [p \in DOMAIN resolver.loaded \cup {canonical} |->
                                       IF p = canonical THEN ir_graphs.graphs
                                       ELSE resolver.loaded[p]],
                                   entered.in_progress \ {canonical}),
                               Tail(imports), files,
                               Append(resolved, ResolvedImport(import.name, ir_graphs.graphs)),
                               reads2)

\* ImportResolver::resolve_imports
resolve_imports(resolver, imports, files) ==
    resolve_imports_loop(resolver, imports, files, << >>, << >>)

\* resolve_cross_graph_edges, lines 99-102: import_map.get(graph_name); a later import
\* of the same name replaces an earlier one; 0 stands for None
import_map_get(imports, graph_name) ==
    IF \E i \in DOMAIN imports : imports[i].name = graph_name
    THEN CHOOSE i \in DOMAIN imports :
             /\ imports[i].name = graph_name
             /\ \A j \in DOMAIN imports : imports[j].name = graph_name => j <= i
    ELSE 0

RECURSIVE flat_nodes(_)
\* imported_graphs.iter().flat_map(|g| g.nodes.iter())
flat_nodes(graphs) ==
    IF graphs = << >> THEN << >> ELSE Head(graphs).nodes \o flat_nodes(Tail(graphs))

\* Iterator::position / Iterator::find by name: the first index, or 0
position_of(nodes, name) ==
    IF \E i \in DOMAIN nodes : nodes[i].name = name
    THEN CHOOSE i \in DOMAIN nodes :
             nodes[i].name = name /\ \A j \in 1..(i - 1) : nodes[j].name # name
    ELSE 0

RECURSIVE resolve_edges_from(_, _, _)
\* resolve_cross_graph_edges, lines 105-160: the edges from the k-th on; an edge whose
\* from is dotted is resolved on its from side only
resolve_edges_from(g, imports, k) ==
    IF k > Len(g.edges) THEN LowerOk(g)
    ELSE LET edge == g.edges[k]
             is_from_cross == contains_dot(edge.from)
         IN  IF ~is_from_cross /\ ~contains_dot(edge.to)
             THEN resolve_edges_from(g, imports, k + 1)
             ELSE LET dotted == IF is_from_cross THEN edge.from ELSE edge.to
                      graph_name == split_once(dotted)[1]
                      node_name == split_once(dotted)[2]
                      at == import_map_get(imports, graph_name)
                  IN  IF at = 0 THEN LowerErr("unknown imported graph")
                      ELSE LET candidates == flat_nodes(imports[at].graphs)
                               found == position_of(candidates, node_name)
                           IN  IF found = 0 THEN LowerErr("unknown node in imported graph")
                               ELSE LET local_name == format_dotted(graph_name, node_name)
                                        pos == position_of(g.nodes, local_name)
                                        copied == [candidates[found] EXCEPT !.name = local_name]
                                        nodes2 == IF pos # 0 THEN g.nodes
                                                  ELSE Append(g.nodes, copied)
                                        local_idx == IF pos # 0 THEN pos ELSE Len(g.nodes) + 1
                                        edge2 == IF is_from_cross
                                                 THEN [edge EXCEPT !.from = local_name,
                                                                   !.from_index = local_idx]
                                                 ELSE [edge EXCEPT !.to = local_name,
                                                                   !.to_index = local_idx]
                                    IN  resolve_edges_from(
                                            IrGraph(nodes2, [g.edges EXCEPT ![k] = edge2]),
                                            imports, k + 1)

\* resolve::resolve_cross_graph_edges
resolve_cross_graph_edges(g, imports) == resolve_edges_from(g, imports, 1)

\* cli::commands::lower_with_imports
lower_with_imports(ast_graph, files) ==
    LET ir == lower(ast_graph)
        r == resolve_imports(ImportResolver_new, ast_graph.imports, files)
    IN  IF ir.state = "Err" THEN ir
        ELSE IF ast_graph.imports = << >> THEN ir
        ELSE IF r.state = "Err" THEN LowerErr(r.error)
        ELSE resolve_cross_graph_edges(ir.ir, r.resolved)

(***************************************************************************)
(* The resolver as an object, and lower_with_imports as the commands call  *)
(* it.                                                                     *)
(***************************************************************************)
ImportedNames == <<"P", "Q", "R", "S">>

Aliases == {Ident("M"), Ident("U")}

\* the dotted names an edge of the model may carry
DottedNames == {format_dotted(Ident("M"), Ident("P")), format_dotted(Ident("M"), Ident("Q"))}

\* the import lists of a graph: aliases from A, paths from P
ImportLists(A, P) == SeqsUpTo({Import(a, p) : a \in A, p \in P}, MaxImports)

\* n nodes named by names, each with or without a required field
AstNodes(names, n) ==
    {[i \in 1..n |-> AstNode(Ident(names[i]), req[i])] : req \in [1..n -> {{}, Fields}]}

\* the edge lists between the first n of names and the dotted names D
AstEdges(names, n, D) ==
    LET ends == {Ident(names[i]) : i \in 1..n} \cup D
    IN  SeqsUpTo({AstEdge(f, t, ps) : f \in ends, t \in ends, ps \in {<< >>, FieldSeq}},
                 MaxAstEdges)

\* the graphs parse returns for the file handed to the command: node names differ and
\* every endpoint without a dot is a node (parser/parse.rs, lines 179-206)
RootGraphs(n) ==
    {AstGraph(ns, es, imps) : ns \in AstNodes(NodeNames, n),
                              es \in AstEdges(NodeNames, n, DottedNames),
                              imps \in ImportLists(Aliases, {"./m.tast"})}

\* what the imported file may hold: nothing to parse, or one graph of local edges
ImportedFiles(n) ==
    {Parsed(<<AstGraph(ns, es, << >>)>>) : ns \in AstNodes(ImportedNames, n),
                                           es \in AstEdges(ImportedNames, n, {})}

\* the files of the resolver runs: each imports some of the others or itself
ResolverFiles ==
    {Missing, Unreadable, Unparsable}
        \cup {Parsed(<<AstGraph(ns, << >>, imps)>>)
              : ns \in AstNodes(ImportedNames, 0) \cup AstNodes(ImportedNames, 1),
                imps \in ImportLists(Aliases, ImportPaths)}

\* nothing of the other stages is at work
OnlyLowering ==
    /\ \E cfg \in RunConfigs : config = cfg /\ cfg.backend_name = None /\ ~cfg.fail_fast
    /\ registry = << >>
    /\ RunnerIdle
    /\ NoCommand
    /\ NoLevels
    /\ NoGraph
    /\ NoFilter

\* a resolver has been made for a directory of files
InitResolve ==
    /\ fs_files \in [CanonicalPaths -> ResolverFiles]
    /\ import_resolver = ImportResolver_new
    /\ import_result = ImportsNotResolved
    /\ importer = None
    /\ resolve_calls = 0
    /\ parsed = AstGraph(<< >>, << >>, << >>)
    /\ lowered = NotLowered
    /\ fs_reads = << >>
    /\ OnlyLowering

\* resolve_imports is called with the imports of the first graph of a file
ResolveImports ==
    /\ resolve_calls < MaxResolveCalls
    /\ \E f \in CanonicalPaths :
          /\ fs_files[f].status = "ok"
          /\ LET r == resolve_imports(import_resolver, fs_files[f].graphs[1].imports,
                                      fs_files)
             IN  /\ import_result' = r
                 /\ import_resolver' = r.resolver
                 /\ importer' = f
                 /\ fs_reads' = fs_reads \o [k \in DOMAIN r.reads |-> r.reads[k].path]
    /\ resolve_calls' = resolve_calls + 1
    /\ UNCHANGED <<fs_files, parsed, lowered>>
    /\ UNCHANGED <<runVars, cliVars, levelVars, graphVars, filterVars>>

NextResolve == ResolveImports

SpecResolve == InitResolve /\ [][NextResolve]_vars

\* a command has parsed a file; the file it may import is /m.tast
InitLower ==
    /\ \E n \in 0..MaxAstNodes : parsed \in RootGraphs(n)
    /\ \E f \in {Missing, Unparsable} \cup UNION {ImportedFiles(n) : n \in 0..MaxAstNodes} :
          fs_files = [p \in CanonicalPaths |-> IF p = "/m.tast" THEN f ELSE Missing]
    /\ import_resolver = ImportResolver_new
    /\ import_result = ImportsNotResolved
    /\ importer = None
    /\ resolve_calls = 0
    /\ lowered = NotLowered
    /\ fs_reads = << >>
    /\ OnlyLowering

\* lower_with_imports is called on the graph
LowerWithImports ==
    /\ lowered.state = "none"
    /\ lowered' = lower_with_imports(parsed, fs_files)
    /\ UNCHANGED <<fs_files, import_resolver, import_result, importer, resolve_calls, parsed,
                   fs_reads>>
    /\ UNCHANGED <<runVars, cliVars, levelVars, graphVars, filterVars>>

NextLower == LowerWithImports

SpecLower == InitLower /\ [][NextLower]_vars

(***************************************************************************)
(* Plan filtering (plan/filter.rs).                                        *)
(***************************************************************************)
Include(tag) == [kind |-> "Include", tag |-> tag, preds |-> << >>]
Exclude(tag) == [kind |-> "Exclude", tag |-> tag, preds |-> << >>]
And(preds) == [kind |-> "And", tag |-> None, preds |-> preds]
Or(preds) == [kind |-> "Or", tag |-> None, preds |-> preds]

SingleTags == {Include(t) : t \in TagNames} \cup {Exclude(t) : t \in TagNames}

\* the predicates parse_filter returns, and And and Or of no predicate
TagPredicates ==
    SingleTags \cup {And(ps) : ps \in SeqsUpTo(SingleTags, MaxFilterPreds)}
               \cup {Or(ps) : ps \in SeqsUpTo(SingleTags, MaxFilterPreds)}

\* And that holds as soon as one of its predicates holds
RECURSIVE matches_and_as_any(_, _)
matches_and_as_any(pred, tags) ==
    CASE pred.kind = "Include" -> pred.tag \in tags
      [] pred.kind = "Exclude" -> pred.tag \notin tags
      [] OTHER -> \E k \in DOMAIN pred.preds : matches_and_as_any(pred.preds[k], tags)

RECURSIVE matches(_, _)
\* TagPredicate::matches
matches(pred, tags) ==
    CASE pred.kind = "Include" -> pred.tag \in tags
      [] pred.kind = "Exclude" -> pred.tag \notin tags
      [] pred.kind = "And" -> \A k \in DOMAIN pred.preds : matches(pred.preds[k], tags)
      [] pred.kind = "Or" -> \E k \in DOMAIN pred.preds : matches(pred.preds[k], tags)

RECURSIVE filter_steps(_, _)
\* filter_plan, lines 93-98: the steps that match, in plan order
filter_steps(steps, predicate) ==
    IF steps = << >> THEN << >>
    ELSE (IF matches(predicate, Head(steps).tags) THEN <<Head(steps)>> ELSE << >>)
             \o filter_steps(Tail(steps), predicate)

\* filter_plan that leaves the steps their old order numbers
filter_plan_without_renumbering(p, predicate) ==
    LET filtered_steps == filter_steps(p.steps, predicate)
    IN  [p EXCEPT !.steps = filtered_steps, !.nodes_total = Len(filtered_steps)]

\* plan::filter::filter_plan
filter_plan(p, predicate) ==
    LET filtered_steps == filter_steps(p.steps, predicate)
    IN  [p EXCEPT !.steps = [i \in DOMAIN filtered_steps |->
                                [filtered_steps[i] EXCEPT !.order = i]],
                  !.nodes_total = Len(filtered_steps)]

\* how the steps of a compiled plan hang together: not at all, each on the node before
\* it, or each on the node before it with a field passed along
Linkings == {"none", "control", "data"}

\* the plans of n steps the compiler returns for a chain of n nodes with any tags
TaggedPlans(n) ==
    {TaggedPlan([i \in 1..n |->
                    TaggedStep(i, NodeNames[i], tags[i],
                               IF linking # "none" /\ i > 1 THEN {NodeNames[i - 1]} ELSE {},
                               IF linking = "data" /\ i > 1
                               THEN <<InputEntry("x", NodeNames[i - 1])>> ELSE << >>)],
                n,
                IF linking # "none" /\ n > 1 THEN n - 1 ELSE 0)
     : tags \in [1..n -> SUBSET TagNames], linking \in Linkings}

\* a plan has been compiled and nothing else is at work
InitFilter ==
    /\ \E n \in 0..MaxFilterSteps : f_original \in TaggedPlans(n)
    /\ f_plan = f_original
    /\ f_applied = << >>
    /\ \E cfg \in RunConfigs : config = cfg /\ cfg.backend_name = None /\ ~cfg.fail_fast
    /\ registry = << >>
    /\ RunnerIdle
    /\ NoCommand
    /\ NoLevels
    /\ NoGraph
    /\ NoLowering

\* filter_plan is called on the plan the last call returned; two calls are composed
FilterPlan ==
    /\ Len(f_applied) < 2
    /\ \E predicate \in TagPredicates :
          /\ f_plan' = filter_plan(f_plan, predicate)
          /\ f_applied' = Append(f_applied, predicate)
    /\ UNCHANGED f_original
    /\ UNCHANGED <<runVars, cliVars, levelVars, graphVars, lowerVars>>

NextFilter == FilterPlan

SpecFilter == InitFilter /\ [][NextFilter]_vars

(***************************************************************************)
(* Properties of a run.                                                    *)
(***************************************************************************)
\* the steps handed to the backend's execute_step so far
Called == {calls[k].step : k \in DOMAIN calls}
\* step i has a failed or error result
Terminated(i) == results[i].status \in {"failed", "error"}
RunDone == pc = "done" /\ run_result.state = "Ok"

\* C1 (as claimed): whenever the result of node N is failed or error and another step M
\* lists N in its depends_on, the result of M is skipped and M was never handed to the
\* backend.
C1_SkipCascadeAnyPlan ==
    \A i \in DOMAIN results, j \in DOMAIN results :
        (i # j /\ Terminated(i) /\ plan.steps[i].node \in plan.steps[j].depends_on)
            => (results[j].status = "skipped" /\ j \notin Called)

\* C2: in a fail-fast run every step after a step with a failed or error result has the
\* result skipped and was never handed to the backend.
C2_FailFastSkipsRest ==
    config.fail_fast =>
        \A i \in DOMAIN results, j \in DOMAIN results :
            (i < j /\ Terminated(i)) => (results[j].status = "skipped" /\ j \notin Called)

C2_Witness ==
    /\ RunDone /\ config.fail_fast
    /\ \E i \in DOMAIN results, j \in DOMAIN results :
          i < j /\ Terminated(i) /\ results[j].status = "skipped"
                /\ plan.steps[j].depends_on = {}

\* C3: without fail-fast, a step none of whose depends_on names has a failed or error
\* result is handed to the backend, whatever failed before it; in scenario F with A
\* passing and B failing, C is skipped without a call and D is handed to the backend.
C3_IndependentStepsRun ==
    ~config.fail_fast =>
        /\ \A j \in DOMAIN results :
              (\A i \in DOMAIN results :
                  Terminated(i) => plan.steps[i].node \notin plan.steps[j].depends_on)
                    => j \in Called
        /\ (plan = ScenarioF /\ RunDone /\ results[1].status = "passed"
                /\ results[2].status = "failed")
              => /\ results[3].status = "skipped" /\ 3 \notin Called
                 /\ 4 \in Called

C3_Witness ==
    /\ plan = ScenarioF /\ RunDone /\ ~config.fail_fast
    /\ [i \in 1..4 |-> results[i].status] = <<"passed", "failed", "skipped", "passed">>

\* C4: a backend error for a step does not abort the run: the step's result is failed
\* with kind runtime-error, its node is in failed_nodes, fail-fast stops the run's
\* remaining steps, and run returns a result with one entry per step.
C4_BackendErrorIsFailedStep ==
    \A k \in DOMAIN calls :
        ~calls[k].ok =>
            /\ results[calls[k].step] = Failed(calls[k].node, "RuntimeError")
            /\ calls[k].node \in failed_nodes
            /\ (config.fail_fast => stop)
            /\ run_result.state # "Err"
            /\ (pc = "done" => /\ run_result.state = "Ok"
                               /\ Len(run_result.steps) = Len(plan.steps))

C4_Witness ==
    /\ RunDone
    /\ \E k \in DOMAIN calls : ~calls[k].ok /\ calls[k].step < Len(results)

\* C5: run returns an error exactly when the backend selection fails (no backend of the
\* configured name, or none detects the project) or the harness generation fails, and
\* then no step was executed; otherwise it returns a run result.
SelectionFails ==
    \/ /\ config.backend_name # None
       /\ \A k \in DOMAIN registry : registry[k].name # config.backend_name
    \/ /\ config.backend_name = None
       /\ \A k \in DOMAIN registry : ~registry[k].detect

C5_RunErrorsOnlyOnConfiguration ==
    pc = "done" =>
        /\ run_result.state \in {"Ok", "Err"}
        /\ run_result.state = "Err" <=> (SelectionFails \/ harness = "failed")
        /\ run_result.state = "Err" => (calls = << >> /\ results = << >>)
        /\ (run_result.state = "Err" /\ SelectionFails) => run_result.kind = "BackendNotFound"

C5_Witness ==
    pc = "done" /\ run_result.state = "Err" /\ run_result.kind = "HarnessGenerationFailed"

\* the key set recorded in the context for a node (none recorded: no keys)
RecordedKeys(node) == IF node \in DOMAIN context THEN DOMAIN context[node] ELSE {}

\* C6 (as claimed): for every passed step the key set recorded in the context under
\* its node is exactly the step's declared outputs.
C6_RecordedKeysAreDeclaredOutputs ==
    \A i \in DOMAIN results :
        results[i].status = "passed"
            => RecordedKeys(plan.steps[i].node) = plan.steps[i].outputs

\* C6 (amended): for every passed step the context holds under its node exactly the
\* output map of the step's result, and nothing when that map is empty; under the HTTP
\* backend the keys of that map are among the step's declared outputs.
C6_RecordedMapIsResultOutputs ==
    \A i \in DOMAIN results :
        results[i].status = "passed" =>
            LET node == plan.steps[i].node
                outputs == results[i].outputs
            IN  /\ ~IsEmptyMap(outputs) => (node \in DOMAIN context /\ context[node] = outputs)
                /\ IsEmptyMap(outputs) => node \notin DOMAIN context
                /\ backend.kind = "http" => DOMAIN outputs \subseteq plan.steps[i].outputs

C6_Witness ==
    /\ RunDone /\ backend.kind = "http"
    /\ \E i \in DOMAIN results :
          /\ results[i].status = "passed"
          /\ plan.steps[i].outputs # {}
          /\ IsEmptyMap(results[i].outputs)
    /\ \E i \in DOMAIN results :
          /\ results[i].status = "passed"
          /\ ~IsEmptyMap(results[i].outputs)

\* C7 (as claimed): for every passed step S and every later step T with an input
\* (f, from = S), resolve_inputs called for T returns for f the value S's result carried
\* for f, and S's entry in the context stays what S recorded.
C7_ResolvedInputsAreSourceOutputs ==
    /\ \A k \in DOMAIN calls :
          LET t == calls[k].step
              r == calls[k].resolved
          IN  (r.called /\ r.ok) =>
                \A n \in DOMAIN plan.steps[t].inputs, s \in 1..(t - 1) :
                    LET input == plan.steps[t].inputs[n]
                    IN  (/\ input.from = plan.steps[s].node
                         /\ results[s].status = "passed"
                         /\ input.field \in DOMAIN results[s].outputs)
                            => r.resolved[input.field] = results[s].outputs[input.field]
    /\ \A s \in DOMAIN results :
          (results[s].status = "passed" /\ ~IsEmptyMap(results[s].outputs))
              => context[plan.steps[s].node] = results[s].outputs

\* the counts of the results by status, taken from the results themselves
CountStatus(st) == Cardinality({i \in DOMAIN results : results[i].status = st})

\* C9: in every run result, total is the number of plan steps and the sum of the four
\* counts, each count is the number of results of that status, and success holds
\* exactly when no result is failed or error.
C9_SummaryCounts ==
    RunDone =>
        LET sm == run_result.summary
        IN  /\ sm.total = Len(plan.steps)
            /\ sm.total = sm.passed + sm.failed + sm.skipped + sm.errors
            /\ sm.passed = CountStatus("passed")
            /\ sm.failed = CountStatus("failed")
            /\ sm.skipped = CountStatus("skipped")
            /\ sm.errors = CountStatus("error")
            /\ success(sm) <=> (CountStatus("failed") = 0 /\ CountStatus("error") = 0)

C9_Witness ==
    /\ RunDone
    /\ \A st \in StepStatus : CountStatus(st) >= 1

\* every step status of the plans the command has run
ExecutedStatuses == UNION {Range(executed[k]) : k \in DOMAIN executed}

LevelPlaces == UNION {{<<l, k>> : k \in DOMAIN levels[l]} : l \in DOMAIN levels}

\* every step of the plan stands at exactly one place of the levels
EachStepOnce ==
    \A i \in DOMAIN plan.steps :
        Cardinality({pl \in LevelPlaces : levels[pl[1]][pl[2]] = i}) = 1

\* C10: for every plan, also one whose depends_on lists form a cycle or name nodes
\* that are not in the plan, execution_levels returns, and in the levels it returns
\* every plan step appears exactly once.
C10_LevelsTerminateAndCoverPlan ==
    /\ <>(lv_pc = "done")
    /\ [](lv_pc = "done" => EachStepOnce)

C10_Witness ==
    /\ lv_pc = "done"
    /\ Len(levels) >= 2
    /\ \E i \in DOMAIN plan.steps : Absent \in plan.steps[i].depends_on
    /\ \E i \in DOMAIN plan.steps : plan.steps[i].node \in plan.steps[i].depends_on

\* the level a step stands in (0: in none)
LevelOf(i) ==
    IF \E l \in DOMAIN levels : i \in Range(levels[l])
    THEN CHOOSE l \in DOMAIN levels : i \in Range(levels[l])
    ELSE 0

\* C11 (as claimed): in the levels execution_levels returns, no step lists another step
\* of its own level in its depends_on, and every step it lists stands in a strictly
\* earlier level.
C11_LevelsAreIndependent ==
    lv_pc = "done" =>
        \A i \in DOMAIN plan.steps, j \in DOMAIN plan.steps :
            (i # j /\ plan.steps[j].node \in plan.steps[i].depends_on)
                => LevelOf(j) < LevelOf(i)

\* the position of a node's step in the compiled plan (0: the node has no step)
StepPos(name) ==
    IF \E k \in DOMAIN cplan.plan.steps : cplan.plan.steps[k].node = name
    THEN CHOOSE k \in DOMAIN cplan.plan.steps : cplan.plan.steps[k].node = name
    ELSE 0

\* C12 (as claimed): in every plan the compiler produces, under any strategy, every
\* depends_on name and every input's from of a step is the node of an earlier step.
C12_PredecessorsPrecede ==
    cplan.state = "Ok" =>
        \A k \in DOMAIN cplan.plan.steps :
            LET st == cplan.plan.steps[k]
                froms == {st.inputs[m].from : m \in DOMAIN st.inputs}
            IN  \A name \in st.depends_on \cup froms :
                    StepPos(name) >= 1 /\ StepPos(name) < k

\* C13 (as claimed): in every compiled plan, for every input (f, from = N) of a step S, N is
\* in S.depends_on and N has a step whose outputs list holds f.
C13_InputsComeFromDeclaredOutputs ==
    cplan.state = "Ok" =>
        \A k \in DOMAIN cplan.plan.steps :
            LET st == cplan.plan.steps[k]
            IN  \A m \in DOMAIN st.inputs :
                    /\ st.inputs[m].from \in st.depends_on
                    /\ StepPos(st.inputs[m].from) >= 1
                    /\ st.inputs[m].field
                           \in cplan.plan.steps[StepPos(st.inputs[m].from)].outputs

\* the nodes one edge away from a node of S
Successors(tg, S) == {tg.edges[k].to_index : k \in {m \in DOMAIN tg.edges : tg.edges[m].from_index \in S}}

RECURSIVE ReachedWithin(_, _, _)
\* the nodes of S and those at most k edges away from them
ReachedWithin(tg, S, k) ==
    IF k = 0 THEN S ELSE ReachedWithin(tg, S \cup Successors(tg, S), k - 1)

\* a path of one edge or more leads from the node back to itself
OnCycle(tg, a) == a \in ReachedWithin(tg, Successors(tg, {a}), Len(tg.nodes))

Acyclic(tg) == \A a \in DOMAIN tg.nodes : ~OnCycle(tg, a)

\* the position of a node in the order traverse returned (0: not in it)
OrderPos(a) ==
    IF \E k \in DOMAIN sorted.order : sorted.order[k] = a
    THEN CHOOSE k \in DOMAIN sorted.order : sorted.order[k] = a
    ELSE 0

\* C14: on an acyclic graph, topological returns every node exactly once, and the source
\* of every edge stands before its target.
C14_TopologicalOrdersAcyclicGraph ==
    (strategy = "topological" /\ Acyclic(graph)) =>
        /\ sorted.state = "Ok"
        /\ Len(sorted.order) = Len(graph.nodes)
        /\ Range(sorted.order) = DOMAIN graph.nodes
        /\ \A k \in DOMAIN graph.edges :
               OrderPos(graph.edges[k].from_index) < OrderPos(graph.edges[k].to_index)

\* topological has ordered an acyclic graph of three nodes whose edges run against the
\* order the nodes were declared in
C14_Witness ==
    /\ strategy = "topological"
    /\ g_pc = "traversed"
    /\ Acyclic(graph)
    /\ Len(graph.nodes) = 3
    /\ sorted.state = "Ok"
    /\ \E k, m \in DOMAIN graph.edges :
          /\ graph.edges[k].from_index = 3 /\ graph.edges[k].to_index = 2
          /\ graph.edges[m].from_index = 2 /\ graph.edges[m].to_index = 1

\* C15: on every graph, topological fails with a cycle error exactly when find_cycle
\* returns a witness path, and returns an ordering exactly when find_cycle returns none.
C15_TopologicalFailsIffCycleFound ==
    (strategy = "topological" /\ cycle.state # "none") =>
        /\ sorted.state = "Err" <=> cycle.state = "Some"
        /\ sorted.state = "Ok" <=> cycle.state = "None"

\* topological has failed on a graph and find_cycle has returned a path of two nodes or
\* more that closes into a cycle of the graph
C15_Witness ==
    /\ strategy = "topological"
    /\ sorted.state = "Err"
    /\ cycle.state = "Some"
    /\ Len(cycle.path) >= 2
    /\ \E k \in DOMAIN graph.edges :
          /\ graph.edges[k].from = cycle.path[Len(cycle.path)]
          /\ graph.edges[k].to = cycle.path[1]

\* the files a file imports
ImportsOf(f) ==
    IF fs_files[f].status = "ok"
    THEN {canonicalize(fs_files[f].graphs[1].imports[k].path)
          : k \in DOMAIN fs_files[f].graphs[1].imports}
    ELSE {}

\* the file imports itself, or imports a file that imports it
OnImportCycle(f) == \E g \in ImportsOf(f) : g = f \/ f \in ImportsOf(g)

\* C16 (as claimed): the resolver opens no file that is in its in-progress set, and the
\* imports of a file on an import cycle are never resolved successfully.
C16_CircularImportsNeverResolve ==
    /\ \A k \in DOMAIN import_result.reads :
           import_result.reads[k].path \notin import_result.reads[k].in_progress
    /\ (import_result.state # "none" /\ OnImportCycle(importer))
           => import_result.state = "Err"

\* the index is within the node list and the node there carries the name
PointsAt(ir, index, name) == index \in DOMAIN ir.nodes /\ ir.nodes[index].name = name

\* C17 (as claimed): when lowering with import resolution succeeds, every edge has both
\* indices within the node list and the nodes there carry the edge's from and to names.
C17_ResolvedEdgesPointAtTheirNodes ==
    lowered.state = "Ok" =>
        \A k \in DOMAIN lowered.ir.edges :
            LET edge == lowered.ir.edges[k]
            IN  /\ PointsAt(lowered.ir, edge.from_index, edge.from)
                /\ PointsAt(lowered.ir, edge.to_index, edge.to)

\* the dotted endpoints of the parsed graph's edges
DottedEndpoints ==
    {d \in {parsed.edges[k].from : k \in DOMAIN parsed.edges}
              \cup {parsed.edges[k].to : k \in DOMAIN parsed.edges} : contains_dot(d)}

\* the node names the graphs of a file define
FileNodeNames(path) ==
    LET f == fs_files[canonicalize(path)]
    IN  UNION {{f.graphs[g].nodes[n].name : n \in DOMAIN f.graphs[g].nodes}
               : g \in DOMAIN f.graphs}

\* the node names the files imported under an alias define
DefinedUnder(alias) ==
    UNION {FileNodeNames(parsed.imports[i].path)
           : i \in {j \in DOMAIN parsed.imports : parsed.imports[j].name = alias}}

\* the alias is none of the graph's imports, or the node is not defined under it
Dangling(d) ==
    \/ \A i \in DOMAIN parsed.imports : parsed.imports[i].name # split_once(d)[1]
    \/ split_once(d)[2] \notin DefinedUnder(split_once(d)[1])

\* C18 (as claimed): lowering with import resolution fails whenever an endpoint Alias.Node
\* of some edge, source or target, names an alias the graph does not import or a node the
\* imported file does not define, also when the graph declares no imports.
C18_DanglingReferenceIsAnError ==
    (lowered.state # "none" /\ \E d \in DottedEndpoints : Dangling(d))
        => lowered.state = "Err"

\* C19 (as claimed): in every graph lowering accepts, each field a node requires is in
\* the passes of at least one edge whose target is that node.
C19_RequiresArePassedIn ==
    lowered.state = "Ok" =>
        \A i \in DOMAIN lowered.ir.nodes :
            \A req \in lowered.ir.nodes[i].requires :
                \E k \in DOMAIN lowered.ir.edges :
                    /\ lowered.ir.edges[k].to = lowered.ir.nodes[i].name
                    /\ lowered.ir.edges[k].to_index = i
                    /\ req \in Range(lowered.ir.edges[k].passes)

\* the nodes of a plan's steps, in plan order
StepNodes(p) == [i \in DOMAIN p.steps |-> p.steps[i].node]

\* C20: filtering a plan by one predicate and the result by a second yields the same
\* sequence of step nodes as filtering the plan once by And of the two.
C20_FilterComposesAsAnd ==
    Len(f_applied) = 2 =>
        StepNodes(f_plan) = StepNodes(filter_plan(f_original, And(f_applied)))

\* two filters were applied that each dropped a step the other kept, and a step is left
C20_Witness ==
    /\ Len(f_applied) = 2
    /\ Len(f_original.steps) > Len(filter_plan(f_original, f_applied[1]).steps)
    /\ Len(filter_plan(f_original, f_applied[1]).steps) > Len(f_plan.steps)
    /\ Len(filter_plan(f_original, f_applied[2]).steps) > Len(f_plan.steps)
    /\ Len(f_plan.steps) > 0

\* the place of a node's step in the plan before any filter
OriginalPos(node) ==
    CHOOSE k \in DOMAIN f_original.steps : f_original.steps[k].node = node

\* C21: filter_plan keeps exactly the steps whose tags match the predicate, in their
\* original relative order and otherwise as they were, numbers them 1..n, sets
\* nodes_total to n and leaves edges_total as it was.
C21_FilterKeepsMatchingStepsRenumbered ==
    Len(f_applied) = 1 =>
        /\ Range(StepNodes(f_plan))
               = {f_original.steps[k].node
                  : k \in {m \in DOMAIN f_original.steps
                            : matches(f_applied[1], f_original.steps[m].tags)}}
        /\ \A i \in DOMAIN f_plan.steps, j \in DOMAIN f_plan.steps :
               i < j => OriginalPos(f_plan.steps[i].node) < OriginalPos(f_plan.steps[j].node)
        /\ \A i \in DOMAIN f_plan.steps :
               /\ f_plan.steps[i].order = i
               /\ f_plan.steps[i]
                      = [f_original.steps[OriginalPos(f_plan.steps[i].node)] EXCEPT !.order = i]
        /\ f_plan.nodes_total = Len(f_plan.steps)
        /\ f_plan.edges_total = f_original.edges_total

\* one filter dropped the middle step of three linked steps and kept the outer two
C21_Witness ==
    /\ Len(f_applied) = 1
    /\ Len(f_original.steps) = 3
    /\ f_original.edges_total = 2
    /\ StepNodes(f_plan) = <<NodeNames[1], NodeNames[3]>>

\* the index of the node shortest_path was asked to start from, and to reach
PathFrom == find_node_by_name(graph, spath.from_name)
PathTo == find_node_by_name(graph, spath.to_name)

\* C22: when shortest_path succeeds, the path starts at the node named first, ends at
\* the node named second, every hop of it is an edge of the graph, and no path from
\* the first node to the second has fewer nodes
C22_ShortestPathIsAShortestPath ==
    spath.state = "Ok" =>
        /\ spath.path # << >>
        /\ graph.nodes[spath.path[1]].name = spath.from_name
        /\ graph.nodes[spath.path[Len(spath.path)]].name = spath.to_name
        /\ \A i \in 1..(Len(spath.path) - 1) :
               spath.path[i + 1] \in Successors(graph, {spath.path[i]})
        /\ Len(spath.path) >= 2 =>
               PathTo \notin ReachedWithin(graph, {PathFrom}, Len(spath.path) - 2)

\* a direct edge and a detour of two edges lead from the start to the target, the
\* edge to the detour added last, and the direct edge is returned
C22_Witness ==
    /\ spath.state = "Ok"
    /\ Len(spath.path) = 2
    /\ \E mid \in DOMAIN graph.nodes \ {PathFrom, PathTo} :
          /\ mid \in Successors(graph, {PathFrom})
          /\ PathTo \in Successors(graph, {mid})
          /\ neighbors_outgoing(graph, PathFrom)[1] = mid

\* every depends_on name of a step is the node of an earlier step of the plan
TopologicallyOrdered(p) ==
    \A i \in DOMAIN p.steps : \A dep \in p.steps[i].depends_on :
        \E j \in 1..(i - 1) : p.steps[j].node = dep

\* C23 (as claimed): in a run over a topologically ordered plan, every step handed to
\* the backend has only depends_on nodes whose result is passed, and a step with a
\* skipped predecessor is not handed to the backend.
C23_ExecutedStepsHavePassedDependencies ==
    TopologicallyOrdered(plan) =>
        /\ \A j \in Called : \A dep \in plan.steps[j].depends_on :
               \E i \in 1..(j - 1) :
                   plan.steps[i].node = dep /\ results[i].status = "passed"
        /\ \A j \in DOMAIN results :
               (\E i \in 1..(j - 1) : /\ plan.steps[i].node \in plan.steps[j].depends_on
                                       /\ results[i].status = "skipped")
                   => j \notin Called

\* the nodes of the steps of the filtered plan before position i
SurvivorsBefore(i) == {f_plan.steps[j].node : j \in 1..(i - 1)}

\* C24 (as claimed): in every plan filter_plan returns, every depends_on name and
\* every input source of a surviving step is the node of a surviving step before it.
C24_FilteredPlanIsClosed ==
    Len(f_applied) >= 1 =>
        \A i \in DOMAIN f_plan.steps :
            /\ f_plan.steps[i].depends_on \subseteq SurvivorsBefore(i)
            /\ \A k \in DOMAIN f_plan.steps[i].inputs :
                   f_plan.steps[i].inputs[k].from \in SurvivorsBefore(i)

\* C25 (as claimed): whenever compilation succeeds, under any strategy, the plan holds
\* exactly one step for every node of the graph, so the number of steps is the
\* nodes_total of the plan's metadata.
C25_OneStepPerNode ==
    (g_pc = "compiled" /\ cplan.state = "Ok") =>
        /\ \A a \in DOMAIN graph.nodes :
               Cardinality({k \in DOMAIN cplan.plan.steps
                               : cplan.plan.steps[k].node = graph.nodes[a].name}) = 1
        /\ Len(cplan.plan.steps) = Len(graph.nodes)
        /\ Len(cplan.plan.steps) = cplan.metadata.nodes_total

\* the status execute_by_levels gave the node, and the one execute_steps gave it
StatusByLevels(node) ==
    (CHOOSE r \in Range(lv_run.results) : r.node = node).status
StatusInPlanOrder(node) ==
    (CHOOSE r \in Range(results) : r.node = node).status

\* both executors have returned
BothExecuted == lv_pc = "executed" /\ pc = "steps"

\* C26 (as claimed): on a topologically ordered plan, with a backend whose answer
\* depends on the step alone, execute_by_levels and execute_steps give every node the
\* same status, with fail_fast off and with fail_fast on.
C26_LevelsRefineSequential ==
    (BothExecuted /\ TopologicallyOrdered(plan)) =>
        \A i \in DOMAIN plan.steps :
            StatusByLevels(plan.steps[i].node) = StatusInPlanOrder(plan.steps[i].node)

\* C27 (as claimed): whenever resolve_imports has returned, with a list or with an
\* error, the resolver's in-progress set is empty, and no call on a resolver that no
\* call is working on is rejected as circular.
C27_InProgressEmptyOnReturn ==
    import_result.state # "none" =>
        /\ import_resolver.in_progress = {}
        /\ import_result.error # "circular import detected"

\* C28 (as claimed): at every point of a run, every node with an entry in the run
\* context is the node of a step that was handed to the backend and passed.
C28_ContextHoldsPassedStepsOnly ==
    \A node \in DOMAIN context :
        \E i \in Called : plan.steps[i].node = node /\ results[i].status = "passed"

\* the graph has an edge from the node named a to the node named b
HasEdge(a, b) == \E k \in DOMAIN graph.edges : graph.edges[k].from = a /\ graph.edges[k].to = b

\* C29: whenever find_cycle returns a path n1 .. nk, the graph has an edge from each ni
\* to the next and an edge from nk back to n1; a path of one node is a node with an edge
\* to itself.
C29_CycleWitnessIsACycle ==
    cycle.state = "Some" =>
        /\ cycle.path # << >>
        /\ \A i \in 1..(Len(cycle.path) - 1) : HasEdge(cycle.path[i], cycle.path[i + 1])
        /\ HasEdge(cycle.path[Len(cycle.path)], cycle.path[1])

\* find_cycle has returned a cycle of two nodes that the search entered from a node
\* outside it
C29_Witness ==
    /\ cycle.state = "Some"
    /\ Len(cycle.path) = 2
    /\ graph.nodes[1].name \notin Range(cycle.path)
    /\ HasEdge(graph.nodes[1].name, cycle.path[1])

\* the imports the last call of resolve_imports was given
LastImports == fs_files[importer].graphs[1].imports

\* C30: within one resolver every canonical path is read at most once, and an import
\* of a path that is loaded, under whatever alias, gets the list in loaded, which is
\* the list the first import of the path got, and the path is not read for it.
C30_EachPathReadOnceThenCached ==
    /\ [](\A i, j \in DOMAIN fs_reads : fs_reads[i] = fs_reads[j] => i = j)
    /\ [][/\ \A p \in DOMAIN import_resolver.loaded :
               /\ p \in DOMAIN import_resolver'.loaded
               /\ import_resolver'.loaded[p] = import_resolver.loaded[p]
               /\ \A k \in (DOMAIN fs_reads' \ DOMAIN fs_reads) : fs_reads'[k] # p
           /\ \A k \in DOMAIN import_result'.resolved :
               /\ import_result'.resolved[k].name = LastImports'[k].name
               /\ import_result'.resolved[k].graphs
                      = import_resolver'.loaded[canonicalize(LastImports'[k].path)]
          ]_vars

\* a second call imports, under the alias U and the spelling m.tast, the file the
\* first call loaded, which the other file imports as M from ./m.tast, and nothing is
\* read for it
C30_Witness ==
    /\ resolve_calls = 2
    /\ LastImports = <<Import(Ident("U"), "m.tast")>>
    /\ \E f \in CanonicalPaths \ {importer} :
          /\ fs_files[f].status = "ok"
          /\ fs_files[f].graphs[1].imports = <<Import(Ident("M"), "./m.tast")>>
    /\ import_result.state = "Ok"
    /\ Len(import_result.resolved) = 1
    /\ import_result.reads = << >>
    /\ fs_reads = <<canonicalize(LastImports[1].path)>>
    /\ import_result.resolved[1].graphs # << >>
    /\ import_result.resolved[1].graphs[1].nodes # << >>
====
